---- MODULE Spec2Model ----
(***************************************************************************)
(* Model of the BDA record core of src/app.py: the validator               *)
(* (validar_payload), the normalizer (normalizar_dados_bda) and the        *)
(* audit-aware writer (inserir_bda / atualizar_bda over the bda table).    *)
(*                                                                         *)
(* Python values are tagged records: None, str (a sequence of one-char     *)
(* strings), int, float, date (a day ordinal), time, pandas NaT.  A dict   *)
(* is a function whose DOMAIN is its key set (no key is named "t"), so an  *)
(* absent key is a key outside the DOMAIN and d.get(k) is Get(d, k).       *)
(***************************************************************************)
EXTENDS Integers, Sequences, FiniteSets, TLC

(***************************************************************************)
(* Python values                                                           *)
(***************************************************************************)
None == [t |-> "None"]

NaT == [t |-> "NaT"]

Str(cs) == [t |-> "str", cs |-> cs]

PyInt(n) == [t |-> "int", n |-> n]

PyFloat(n) == [t |-> "float", n |-> n]

PyDate(d) == [t |-> "date", d |-> d]

PyTime(h, m, s, us) == [t |-> "time", h |-> h, m |-> m, s |-> s, us |-> us]

\* a datetime (a pandas Timestamp is one): a day and a time of day
PyDateTime(d, tm) == [t |-> "datetime", d |-> d, tm |-> tm]

\* float("nan"), what pandas reads a NULL of a numeric column as
NaN == [t |-> "nan"]

\* a list held as a dict value
PyList(l) == [t |-> "list", l |-> l]

\* an uploaded file (st.file_uploader) with the extension of its name
Upload(ext) == [t |-> "upload", ext |-> ext]

IsDict(v) == "t" \notin DOMAIN v

IsStr(v) == ~IsDict(v) /\ v.t = "str"

\* dict.get(k): the value, or None when the key is absent
Get(d, k) == IF k \in DOMAIN d THEN d[k] ELSE None

\* dict.get(k, default)
GetOr(d, k, default) == IF k \in DOMAIN d THEN d[k] ELSE default

\* Python truthiness of a value (bool(v))
Truthy(v) ==
    IF IsDict(v) THEN DOMAIN v # {}
    ELSE CASE v.t = "None" -> FALSE
           [] v.t = "str" -> IF "cs" \in DOMAIN v THEN v.cs # <<>> ELSE TRUE
           [] v.t = "int" -> v.n # 0
           [] v.t = "float" -> v.n # 0
           [] v.t = "list" -> v.l # <<>>
           [] OTHER -> TRUE

(***************************************************************************)
(* Strings                                                                 *)
(***************************************************************************)
Digits == <<"0", "1", "2", "3", "4", "5", "6", "7", "8", "9">>

Dig(n) == Digits[n + 1]

IsDigit(c) == \E i \in 1..10 : Digits[i] = c

DigitVal(c) == (CHOOSE i \in 1..10 : Digits[i] = c) - 1

TwoDigits(n) == <<Dig((n \div 10) % 10), Dig(n % 10)>>

IsSpace(c) == c = " "

RECURSIVE LStrip(_)
LStrip(cs) == IF cs # <<>> /\ IsSpace(Head(cs)) THEN LStrip(Tail(cs)) ELSE cs

RECURSIVE RStrip(_)
RStrip(cs) ==
    IF cs # <<>> /\ IsSpace(cs[Len(cs)]) THEN RStrip(SubSeq(cs, 1, Len(cs) - 1)) ELSE cs

\* str.strip() on the characters
Strip(cs) == RStrip(LStrip(cs))

\* str.lower(), character by character (the letters the model uses)
LowerChar(c) ==
    CASE c = "I" -> "i"
      [] c = "M" -> "m"
      [] c = "P" -> "p"
      [] c = "X" -> "x"
      [] OTHER -> c

Lower(cs) == [i \in 1..Len(cs) |-> LowerChar(cs[i])]

\* sub in s (Python's substring test)
Contains(s, sub) ==
    \E i \in 0..(Len(s) - Len(sub)) : SubSeq(s, i + 1, i + Len(sub)) = sub

\* int(s) on a string: surrounding blanks are dropped, then only digits parse
IntParses(cs) ==
    LET s == Strip(cs) IN s # <<>> /\ \A i \in 1..Len(s) : IsDigit(s[i])

RECURSIVE IntValue(_)
IntValue(s) ==
    IF s = <<>> THEN 0
    ELSE 10 * IntValue(SubSeq(s, 1, Len(s) - 1)) + DigitVal(s[Len(s)])

\* str.split(":")
RECURSIVE Split(_)
Split(cs) ==
    IF \E i \in 1..Len(cs) : cs[i] = ":"
    THEN LET i == CHOOSE k \in 1..Len(cs) :
                      cs[k] = ":" /\ \A m \in 1..(k - 1) : cs[m] # ":"
         IN <<SubSeq(cs, 1, i - 1)>> \o Split(SubSeq(cs, i + 1, Len(cs)))
    ELSE <<cs>>

\* str(date): the ISO text of the day, three digits of the day ordinal
DateStr(d) == <<Dig((d \div 100) % 10), Dig((d \div 10) % 10), Dig(d % 10)>>

\* str(time): HH:MM:SS, followed by .ffffff when microsecond is not 0
TimeStr(v) ==
    TwoDigits(v.h) \o <<":">> \o TwoDigits(v.m) \o <<":">> \o TwoDigits(v.s)
        \o (IF v.us = 0 THEN <<>> ELSE <<".">> \o TwoDigits(v.us))

\* str(v)
PyStr(v) ==
    CASE v.t = "None" -> Str(<<"N", "o", "n", "e">>)
      [] v.t = "NaT" -> Str(<<"N", "a", "T">>)
      [] v.t = "str" -> v
      [] v.t = "int" -> Str(<<Dig(v.n)>>)
      [] v.t = "float" -> Str(<<Dig(v.n), ".", "0">>)
      [] v.t = "date" -> Str(DateStr(v.d))
      [] v.t = "time" -> Str(TimeStr(v))

(***************************************************************************)
(* Fixed strings of the program                                            *)
(***************************************************************************)
EMPTY == Str(<<>>)

SIM == Str(<<"S", "i", "m">>)

NAO == Str(<<"N", "a", "o">>)

\* auto_desc of validar_payload, "Implementar de padrao/criar plano ...", abbreviated
AUTO_DESC == <<"I", "m", "p">>

\* "Implementacao de padrao"
CAT_PADRAO == Str(<<"P", "a", "d", "r", "a", "o">>)

\* "Definir"
RESP_DEFINIR == Str(<<"D", "e", "f", "i", "n", "i", "r">>)

\* timedelta(days=30) of the injected action's due date
PRAZO_DIAS == 30

\* range(1, 6) of the why positions
COLS == 5

PQ(j) == <<"pq1", "pq2", "pq3", "pq4", "pq5">>[j]

(***************************************************************************)
(* validar_payload                                                         *)
(***************************************************************************)
\* keys of obrig_evento_vals, in the order the dict is built
ObrigEventoKeys ==
    <<"equipamento", "secao", "data_quebra", "hora_quebra", "tempo_reparo_h",
      "numero_ordem", "numero_bda", "turno", "time_bda", "dono_bda",
      "categoria_evento", "componentes", "principio_funcionamento",
      "aconteceu_onde", "aconteceu_antes", "descricao_reparo", "modo_falha">>

\* keys of plan_vals, in the order the dict is built
PlanKeys ==
    <<"plano_sap", "descricao_plano", "ultimo_executante", "periodicidade_dias",
      "ultima_realizacao", "status_plano">>

\* labels and plan_labels: the display label of each checked field
Labels ==
    [equipamento |-> "Equipamento", secao |-> "Secao/Local",
     data_quebra |-> "Data da quebra", hora_quebra |-> "Hora da quebra",
     tempo_reparo_h |-> "Tempo de reparo (h)", numero_ordem |-> "N Ordem",
     numero_bda |-> "N BDA", turno |-> "Turno", time_bda |-> "Time da BDA",
     dono_bda |-> "Dono da BDA", categoria_evento |-> "Categoria",
     componentes |-> "Componentes",
     principio_funcionamento |-> "Principio de funcionamento",
     aconteceu_onde |-> "O que aconteceu e onde",
     aconteceu_antes |-> "O que aconteceu antes",
     descricao_reparo |-> "Descricao do reparo", modo_falha |-> "Modo da falha",
     plano_sap |-> "Plano SAP", descricao_plano |-> "Descricao do plano",
     ultimo_executante |-> "Ultimo executante",
     periodicidade_dias |-> "Periodicidade (dias)",
     ultima_realizacao |-> "Ultima realizacao", status_plano |-> "Status do plano"]

\* the error messages
ErrCampo(label) == [e |-> "Preencha o campo", label |-> label]

ErrSequencia(i) == [e |-> "preencha os porques em sequencia", linha |-> i]

ErrCausa(i) == [e |-> "preencha a Causa", linha |-> i]

ErrMin4 == [e |-> "Preencha pelo menos uma linha com no minimo 4 Por ques"]

ErrAcao == [e |-> "Inclua pelo menos uma acao"]

\* all_filled: one error per key whose value is None or a blank string
RECURSIVE all_filled(_, _, _)
all_filled(keys, values, labels) ==
    IF keys = <<>> THEN <<>>
    ELSE LET k == Head(keys)
             v == values[k]
             bad == \/ v = None
                    \/ (IsStr(v) /\ ~Truthy(Str(Strip(v.cs))))
         IN (IF bad THEN <<ErrCampo(labels[k])>> ELSE <<>>)
                \o all_filled(Tail(keys), values, labels)

\* obrig_evento_vals as validar_payload builds it from the payload
obrig_evento_vals(payload) ==
    [k \in {ObrigEventoKeys[i] : i \in 1..Len(ObrigEventoKeys)} |->
        CASE k \in {"data_quebra", "hora_quebra"} ->
                 IF Truthy(Get(payload, k)) THEN PyStr(Get(payload, k)) ELSE None
          [] k = "tempo_reparo_h" -> PyStr(Get(payload, k))
          [] k = "turno" -> IF Truthy(Get(payload, k)) THEN Get(payload, k) ELSE None
          [] OTHER -> Get(payload, k)]

\* plan_vals as validar_payload builds it from the payload
plan_vals(payload) ==
    [k \in {PlanKeys[i] : i \in 1..Len(PlanKeys)} |->
        CASE k = "periodicidade_dias" -> PyStr(Get(payload, k))
          [] k = "ultima_realizacao" ->
                 IF Truthy(Get(payload, k)) THEN PyStr(Get(payload, k)) ELSE None
          [] OTHER -> Get(payload, k)]

\* (row or {}).get(f"pq{j}")
RowGet(row, j) == IF Truthy(row) THEN Get(row, PQ(j)) ELSE None

QuebraSequencia_SoPrimeira(row, j) ==
    Truthy(RowGet(row, j)) /\ j > 1 /\ ~Truthy(RowGet(row, 1))

\* if val and j > 1 and not prev: position j is filled after an empty one
QuebraSequencia(row, j) ==
    Truthy(RowGet(row, j)) /\ j > 1 /\ ~Truthy(IF j > 1 THEN RowGet(row, j - 1) ELSE None)

\* the inner loop "for j in range(1, 6)" over one row, from position j on:
\* seq_ok, filled_count and last_idx as the loop leaves them
RECURSIVE RowScan(_, _, _)
RowScan(row, j, acc) ==
    IF j > COLS THEN acc
    ELSE LET val == RowGet(row, j)
         IN RowScan(row, j + 1,
                [seq_ok |-> acc.seq_ok /\ ~QuebraSequencia(row, j),
                 filled_count |-> acc.filled_count + (IF Truthy(val) THEN 1 ELSE 0),
                 last_idx |-> IF Truthy(val) THEN j ELSE acc.last_idx])

\* the counters of one row after its inner loop
RowResult(row) == RowScan(row, 1, [seq_ok |-> TRUE, filled_count |-> 0, last_idx |-> 0])

\* a depth of at least MIN_PORQUES filled positions makes a row count
MIN_PORQUES == 4

LinhaValida_UltimoIndice(r) == r.last_idx >= MIN_PORQUES

\* if filled_count >= 4: the row counts towards linhas_validas
LinhaValida(r) == r.filled_count >= MIN_PORQUES

\* d[k] = v on a dict
DictSet(d, k, v) == [x \in DOMAIN d \cup {k} |-> IF x = k THEN v ELSE d[x]]

CausaCarimbada_SemCarimbo(causa_info, last_idx) == causa_info

\* causas_linhas[i - 1]["ultimo_por_que"] = last_idx
CausaCarimbada(causa_info, last_idx) == DictSet(causa_info, "ultimo_por_que", PyInt(last_idx))

\* the loop "for i, row in enumerate(whys_grid, start=1)", from row i on
RECURSIVE WhyLoop(_, _, _)
WhyLoop(whys_grid, i, acc) ==
    IF i > Len(whys_grid) THEN acc
    ELSE LET r == RowResult(whys_grid[i])
             causas == acc.causas_linhas
             causa_info == IF i - 1 < Len(causas) THEN causas[i] ELSE << >>
             sem_causa == r.filled_count > 0 /\ ~Truthy(Get(causa_info, "causa"))
             e1 == IF ~r.seq_ok THEN <<ErrSequencia(i)>> ELSE <<>>
             e2 == IF sem_causa THEN <<ErrCausa(i)>> ELSE <<>>
         IN WhyLoop(whys_grid, i + 1,
                [erros |-> acc.erros \o e1 \o e2,
                 linhas_validas |->
                     acc.linhas_validas + (IF LinhaValida(r) THEN 1 ELSE 0),
                 causas_linhas |->
                     IF ~sem_causa /\ i - 1 < Len(causas)
                     THEN [causas EXCEPT ![i] = CausaCarimbada(@, r.last_idx)]
                     ELSE causas])

AcaoValida_SoDescricao(a) == Truthy(Get(a, "descricao"))

\* a for a in acoes_lista if a.get("descricao") and a.get("responsavel")
AcaoValida(a) == Truthy(Get(a, "descricao")) /\ Truthy(Get(a, "responsavel"))

acoes_validas(acoes_lista) == SelectSeq(acoes_lista, AcaoValida)

ja_tem_auto_SemLower(acoes_lista) ==
    \E i \in 1..Len(acoes_lista) :
        Contains(GetOr(acoes_lista[i], "descricao", EMPTY).cs, Lower(AUTO_DESC))

\* any(auto_desc.lower() in a.get("descricao", "").lower() for a in acoes_lista)
ja_tem_auto(acoes_lista) ==
    \E i \in 1..Len(acoes_lista) :
        Contains(Lower(GetOr(acoes_lista[i], "descricao", EMPTY).cs), Lower(AUTO_DESC))

AcaoAuto_SemPrazo(hoje) ==
    [descricao |-> Str(AUTO_DESC), categoria |-> CAT_PADRAO,
     responsavel |-> RESP_DEFINIR, prazo |-> PyStr(PyDate(hoje))]

\* the action validar_payload appends when no plan exists
AcaoAuto(hoje) ==
    [descricao |-> Str(AUTO_DESC), categoria |-> CAT_PADRAO,
     responsavel |-> RESP_DEFINIR, prazo |-> PyStr(PyDate(hoje + PRAZO_DIAS))]

acoes_apos_injecao_SemCondicao(existe_plano, acoes_lista, hoje) ==
    IF ~ja_tem_auto(acoes_lista) THEN Append(acoes_lista, AcaoAuto(hoje)) ELSE acoes_lista

\* the "if existe_plano == 'Nao'" block: the action list after the possible append
acoes_apos_injecao(existe_plano, acoes_lista, hoje) ==
    IF existe_plano = NAO /\ ~ja_tem_auto(acoes_lista)
    THEN Append(acoes_lista, AcaoAuto(hoje))
    ELSE acoes_lista

erros_plano_Sempre(payload) == all_filled(PlanKeys, plan_vals(payload), Labels)

\* the "if existe_plano == 'Sim'" block: the plan-field errors
erros_plano(payload) ==
    IF Get(payload, "existe_plano") = SIM
    THEN all_filled(PlanKeys, plan_vals(payload), Labels)
    ELSE <<>>

\* validar_payload(payload, whys_grid, causas_linhas, acoes_lista) on the day
\* hoje: the returned erros and the two lists as the call leaves them
validar_payload(payload, whys_grid, causas_linhas, acoes_lista, hoje) ==
    LET erros1 == all_filled(ObrigEventoKeys, obrig_evento_vals(payload), Labels)
        erros2 == erros1 \o erros_plano(payload)
        w == WhyLoop(whys_grid, 1,
                 [erros |-> erros2, linhas_validas |-> 0, causas_linhas |-> causas_linhas])
        erros3 == IF w.linhas_validas < 1 THEN Append(w.erros, ErrMin4) ELSE w.erros
        acoes == acoes_apos_injecao(Get(payload, "existe_plano"), acoes_lista, hoje)
        \* acoes_validas is computed before the block and again inside it
        validas == acoes_validas(IF Get(payload, "existe_plano") = NAO
                                 THEN acoes ELSE acoes_lista)
        erros4 == IF Len(validas) < 1 THEN Append(erros3, ErrAcao) ELSE erros3
    IN [erros |-> erros4, causas_linhas |-> w.causas_linhas, acoes_lista |-> acoes]

(***************************************************************************)
(* normalizar_dados_bda                                                    *)
(***************************************************************************)
\* the text before the first blank of a text
RECURSIVE AteEspaco(_)
AteEspaco(cs) ==
    IF cs = <<>> \/ IsSpace(Head(cs)) THEN <<>> ELSE <<Head(cs)>> \o AteEspaco(Tail(cs))

\* pd.to_datetime(s, errors="coerce").date(): the day of a text that starts with an
\* ISO date; any other text coerces to NaT, and NaT.date() is NaT
PandasDate(s) ==
    LET d == AteEspaco(s)
    IN IF Len(d) = 3 /\ \A i \in 1..3 : IsDigit(d[i]) THEN PyDate(IntValue(d)) ELSE NaT

parse_date(val) ==
    IF IsDict(val) THEN None
    ELSE CASE val.t \in {"None", "nan"} -> None
           [] val.t = "date" -> val
           [] val.t = "datetime" -> PyDate(val.d)
           \* NaT is an instance of datetime: val.date() is NaT
           [] val.t = "NaT" -> NaT
           [] val.t = "str" /\ "cs" \in DOMAIN val ->
                  IF Strip(val.cs) = <<>> THEN None ELSE PandasDate(Strip(val.cs))
           [] OTHER -> None

\* dt_time(hour=hh, minute=mm, second=ss) accepts these
HoraValida(hh, mm, ss) == hh \in 0..23 /\ mm \in 0..59 /\ ss \in 0..59

\* the "try" block of _parse_time on the stripped text: the time, or None when
\* int() or dt_time() raises
TimeOfText(s) ==
    LET parts == Split(s)
        ok == /\ IntParses(parts[1])
              /\ Len(parts) > 1 => IntParses(parts[2])
              /\ Len(parts) > 2 => IntParses(parts[3])
        hh == IntValue(Strip(parts[1]))
        mm == IF Len(parts) > 1 THEN IntValue(Strip(parts[2])) ELSE 0
        ss == IF Len(parts) > 2 THEN IntValue(Strip(parts[3])) ELSE 0
    IN IF ok /\ HoraValida(hh, mm, ss) THEN PyTime(hh, mm, ss, 0) ELSE None

\* _parse_time(val), where now is datetime.now().time()
parse_time(val, now) ==
    IF IsDict(val) THEN now
    ELSE CASE val.t \in {"None", "nan"} -> now
           [] val.t = "time" -> val
           [] val.t = "datetime" -> val.tm
           [] val.t = "str" /\ "cs" \in DOMAIN val ->
                  IF Strip(val.cs) = <<>> THEN now
                  ELSE IF TimeOfText(Strip(val.cs)) = None THEN now
                  ELSE TimeOfText(Strip(val.cs))
           [] OTHER -> now

\* the Python value a JSON document decodes to
RECURSIVE PyOf(_)
PyOf(doc) ==
    CASE doc.j = "null" -> None
      [] doc.j = "string" -> Str(doc.cs)
      [] doc.j = "number" -> IF doc.float THEN PyFloat(doc.n) ELSE PyInt(doc.n)
      [] doc.j = "array" -> PyList([i \in 1..Len(doc.a) |-> PyOf(doc.a[i])])
      [] doc.j = "object" -> [k \in DOMAIN doc.m |-> PyOf(doc.m[k])]

\* json.loads on a text given by its characters: the documents the model spells
\* out ("[]", "{}", "null", digits); any other text is no JSON (None stands for
\* the exception, [ok |-> FALSE])
JsonLoadsText(cs) ==
    LET s == Strip(cs)
    IN CASE s = <<"[", "]">> -> [ok |-> TRUE, v |-> PyList(<<>>)]
         [] s = <<"{", "}">> -> [ok |-> TRUE, v |-> << >>]
         [] s = <<"n", "u", "l", "l">> -> [ok |-> TRUE, v |-> None]
         [] s # <<>> /\ (\A i \in 1..Len(s) : IsDigit(s[i])) /\ (Len(s) > 1 => s[1] # "0") ->
                [ok |-> TRUE, v |-> PyInt(IntValue(s))]
         [] OTHER -> [ok |-> FALSE]

safe_json_loads_SemExcept(text, default) ==
    IF IsDict(text) THEN text
    ELSE CASE text.t = "None" -> default
           [] text.t = "list" -> text
           [] text.t = "str" /\ "json" \in DOMAIN text -> PyOf(text.json)
           [] text.t = "str" ->
                  IF Strip(text.cs) = <<>> THEN default
                  ELSE IF JsonLoadsText(text.cs).ok THEN JsonLoadsText(text.cs).v
                  ELSE None
           [] OTHER -> None

\* _safe_json_loads(text, default)
safe_json_loads(text, default) ==
    IF IsDict(text) THEN text
    ELSE CASE text.t = "None" -> default
           [] text.t = "list" -> text
           [] text.t = "str" /\ "json" \in DOMAIN text -> PyOf(text.json)
           [] text.t = "str" ->
                  IF Strip(text.cs) = <<>> THEN default
                  ELSE IF JsonLoadsText(text.cs).ok THEN JsonLoadsText(text.cs).v
                  ELSE default
           \* json.loads of a value that is no text raises TypeError
           [] OTHER -> default

\* float(s) on a text: digits, or digits "." digits with a zero fraction
FloatOfText(cs) ==
    LET s == Strip(cs)
        parts == IF \E i \in 1..Len(s) : s[i] = "."
                 THEN LET i == CHOOSE k \in 1..Len(s) : s[k] = "."
                      IN <<SubSeq(s, 1, i - 1), SubSeq(s, i + 1, Len(s))>>
                 ELSE <<s>>
    IN IF IntParses(parts[1]) /\ parts[1] = Strip(parts[1])
          /\ (Len(parts) = 2 => parts[2] \in {<<>>, <<"0">>})
       THEN PyFloat(IntValue(parts[1])) ELSE None

\* try: float(x or 0.0) except: 0.0
norm_float(x) ==
    IF ~Truthy(x) THEN PyFloat(0)
    ELSE IF IsDict(x) THEN PyFloat(0)
    ELSE CASE x.t \in {"int", "float"} -> PyFloat(x.n)
           [] x.t = "nan" -> NaN
           [] x.t = "str" /\ "cs" \in DOMAIN x ->
                  IF FloatOfText(x.cs) = None THEN PyFloat(0) ELSE FloatOfText(x.cs)
           [] OTHER -> PyFloat(0)

\* try: int(x or 0) except: 0
norm_int(x) ==
    IF ~Truthy(x) THEN PyInt(0)
    ELSE IF IsDict(x) THEN PyInt(0)
    ELSE CASE x.t \in {"int", "float"} -> PyInt(x.n)
           [] x.t = "str" /\ "cs" \in DOMAIN x ->
                  IF IntParses(x.cs) THEN PyInt(IntValue(Strip(x.cs))) ELSE PyInt(0)
           \* int(nan) raises ValueError
           [] OTHER -> PyInt(0)

\* the keys whose None becomes ""
ChavesTexto ==
    {"equipamento", "secao", "numero_ordem", "numero_bda", "turno", "time_bda", "dono_bda",
     "categoria_evento", "componentes", "principio_funcionamento", "aconteceu_onde",
     "aconteceu_antes", "descricao_reparo", "modo_falha", "plano_sap", "descricao_plano",
     "ultimo_executante", "status_plano", "existe_plano", "caminho_imagem", "criado_por",
     "atualizado_por", "atualizado_em"}

\* the keys normalizar_dados_bda always assigns
ChavesTipadas ==
    {"data_quebra", "hora_quebra", "ultima_realizacao", "tempo_reparo_h",
     "periodicidade_dias", "cinco_porques_grid", "acoes_lista", "causas_linhas"}

\* the dict after the loop over the text keys, before existe_plano is derived
norm_campos(dados, today, now) ==
    [k \in DOMAIN dados \cup ChavesTipadas \cup ChavesTexto |->
        CASE k = "data_quebra" ->
                 IF Truthy(parse_date(Get(dados, k))) THEN parse_date(Get(dados, k))
                 ELSE PyDate(today)
          [] k = "hora_quebra" -> parse_time(Get(dados, k), now)
          [] k = "ultima_realizacao" -> parse_date(Get(dados, k))
          [] k = "tempo_reparo_h" -> norm_float(Get(dados, k))
          [] k = "periodicidade_dias" -> norm_int(Get(dados, k))
          [] k \in {"cinco_porques_grid", "acoes_lista", "causas_linhas"} ->
                 safe_json_loads(Get(dados, k), PyList(<<>>))
          [] k \in ChavesTexto -> IF Get(dados, k) = None THEN EMPTY ELSE dados[k]
          [] OTHER -> dados[k]]

normalizar_dados_bda_SemDerivar(dados, today, now) ==
    IF ~Truthy(dados) THEN << >> ELSE norm_campos(dados, today, now)

\* normalizar_dados_bda(dados) on the day today at the time now
normalizar_dados_bda(dados, today, now) ==
    IF ~Truthy(dados) THEN << >>
    ELSE LET d == norm_campos(dados, today, now)
         IN IF d.existe_plano \notin {SIM, NAO}
            THEN [d EXCEPT !.existe_plano = IF Truthy(d.plano_sap) THEN SIM ELSE NAO]
            ELSE d

(***************************************************************************)
(* INSERT / UPDATE with audit                                              *)
(***************************************************************************)
DB_COLUMNS ==
    {"equipamento", "secao", "data_quebra", "hora_quebra", "tempo_reparo_h",
     "numero_ordem", "numero_bda", "turno", "centro_custo", "aconteceu_onde",
     "aconteceu_antes", "descricao_reparo", "modo_falha", "acoes_corretivas",
     "responsavel_corretiva", "quando_corretiva", "plano_sap", "descricao_plano",
     "responsavel_plano", "periodicidade_dias", "ultima_realizacao", "caminho_imagem",
     "criticidade", "categoria", "classificacao", "causa_raiz", "cinco_porques",
     "componentes", "custo_pecas", "custo_mo", "time_bda", "dono_bda",
     "categoria_evento", "cinco_porques_grid", "acoes_lista", "ultimo_executante",
     "status_plano", "existe_plano", "principio_funcionamento", "causas_linhas",
     "criado_por", "atualizado_por", "atualizado_em"}

\* columns _montar_db_payload copies with payload.get(k)
ColunasCopiadas ==
    {"equipamento", "secao", "numero_ordem", "numero_bda", "turno", "aconteceu_onde",
     "aconteceu_antes", "descricao_reparo", "modo_falha", "plano_sap", "descricao_plano",
     "componentes", "time_bda", "dono_bda", "categoria_evento", "ultimo_executante",
     "status_plano", "existe_plano", "principio_funcionamento"}

\* the JSON document json.dumps writes for a value: null, number, string, array, object
RECURSIVE JsonOf(_)
JsonOf(v) ==
    IF IsDict(v)
    THEN [j |-> "object", m |-> [k \in DOMAIN v |-> JsonOf(v[k])]]
    ELSE CASE v.t = "None" -> [j |-> "null"]
           [] v.t = "str" -> [j |-> "string", cs |-> v.cs]
           [] v.t \in {"int", "float"} -> [j |-> "number", n |-> v.n, float |-> v.t = "float"]
           [] v.t = "list" -> [j |-> "array", a |-> [i \in 1..Len(v.l) |-> JsonOf(v.l[i])]]

\* json.dumps(v, ensure_ascii=False): a text, held as the JSON document it spells
JsonDumps(v) == [t |-> "str", json |-> JsonOf(v)]

\* a or b or [] over the payload's two keys of one nested list
ListaDoPayload(payload, k1, k2) ==
    IF Truthy(Get(payload, k1)) THEN Get(payload, k1)
    ELSE IF Truthy(Get(payload, k2)) THEN Get(payload, k2)
    ELSE PyList(<<>>)

\* float(x or 0.0) and int(x or 0) on the numbers of a payload
ToFloat(v) == IF Truthy(v) THEN PyFloat(v.n) ELSE PyFloat(0)

ToInt(v) == IF Truthy(v) THEN PyInt(v.n) ELSE PyInt(0)

\* datetime.now().isoformat(sep=" ", timespec="seconds") on day dia at second seg
IsoTs(dia, seg) == Str(DateStr(dia) \o <<" ">> \o TimeStr(PyTime(0, 0, seg, 0)))

montar_db_payload_AtualizadoSempre(payload, caminho_imagem, user_tag, is_update, now_ts) ==
    [k \in DB_COLUMNS |->
        CASE k \in ColunasCopiadas -> Get(payload, k)
          [] k \in {"data_quebra", "hora_quebra", "ultima_realizacao"} ->
                 IF Truthy(Get(payload, k)) THEN PyStr(Get(payload, k)) ELSE None
          [] k = "tempo_reparo_h" -> ToFloat(Get(payload, k))
          [] k = "periodicidade_dias" -> ToInt(Get(payload, k))
          [] k = "caminho_imagem" -> caminho_imagem
          [] k = "cinco_porques_grid" ->
                 JsonDumps(ListaDoPayload(payload, "_whys_grid", "cinco_porques_grid"))
          [] k = "acoes_lista" ->
                 JsonDumps(ListaDoPayload(payload, "_acoes_lista", "acoes_lista"))
          [] k = "causas_linhas" ->
                 JsonDumps(ListaDoPayload(payload, "_causas_linhas", "causas_linhas"))
          [] k = "criado_por" -> IF is_update THEN None ELSE user_tag
          [] k = "atualizado_por" -> user_tag
          [] k = "atualizado_em" -> now_ts
          [] OTHER -> None]

\* _montar_db_payload: the row dict, one entry per column of DB_COLUMNS
montar_db_payload(payload, caminho_imagem, user_tag, is_update, now_ts) ==
    [k \in DB_COLUMNS |->
        CASE k \in ColunasCopiadas -> Get(payload, k)
          [] k \in {"data_quebra", "hora_quebra", "ultima_realizacao"} ->
                 IF Truthy(Get(payload, k)) THEN PyStr(Get(payload, k)) ELSE None
          [] k = "tempo_reparo_h" -> ToFloat(Get(payload, k))
          [] k = "periodicidade_dias" -> ToInt(Get(payload, k))
          [] k = "caminho_imagem" -> caminho_imagem
          [] k = "cinco_porques_grid" ->
                 JsonDumps(ListaDoPayload(payload, "_whys_grid", "cinco_porques_grid"))
          [] k = "acoes_lista" ->
                 JsonDumps(ListaDoPayload(payload, "_acoes_lista", "acoes_lista"))
          [] k = "causas_linhas" ->
                 JsonDumps(ListaDoPayload(payload, "_causas_linhas", "causas_linhas"))
          [] k = "criado_por" -> IF is_update THEN None ELSE user_tag
          [] k = "atualizado_por" -> IF is_update THEN user_tag ELSE None
          [] k = "atualizado_em" -> IF is_update THEN now_ts ELSE None
          [] OTHER -> None]

salvar_imagem_SemUuid(upload, uuid) ==
    IF upload = None THEN None
    ELSE Str(<<"b", "d", "a", "_">> \o upload.ext)

\* salvar_imagem: the path built from a fresh uuid4 and the lower-cased extension
\* of the upload's name, ".png" when the name has none
salvar_imagem(upload, uuid) ==
    IF upload = None THEN None
    ELSE LET ext == IF Lower(upload.ext) = <<>> THEN <<".", "p", "n", "g">>
                    ELSE Lower(upload.ext)
         IN Str(<<"b", "d", "a", "_", Dig(uuid)>> \o ext)

\* the columns of CREATE TABLE that no INSERT or UPDATE names
ColunasFora == {"created_at"}

\* inserir_bda: INSERT INTO bda (cols) VALUES (...); the key is AUTOINCREMENT and
\* created_at takes its DEFAULT CURRENT_TIMESTAMP
inserir_bda(db, pl, user_tag, now_ts, uuid) ==
    LET imagem_upload == Get(pl, "_imagem_upload")
        img_path == IF imagem_upload # None THEN salvar_imagem(imagem_upload, uuid) ELSE None
        db_payload == montar_db_payload(pl, img_path, user_tag, FALSE, now_ts)
        id == db.seq + 1
        row == [k \in DB_COLUMNS \cup ColunasFora |->
                   IF k \in DB_COLUMNS THEN db_payload[k] ELSE now_ts]
    IN [tabela |-> [x \in DOMAIN db.tabela \cup {id} |->
                       IF x = id THEN row ELSE db.tabela[x]],
        seq |-> id]

atualizar_bda_SemWhere(db, bda_id, pl, user_tag, caminho_imagem_atual, now_ts, uuid) ==
    LET imagem_upload == Get(pl, "_imagem_upload")
        img_path == IF imagem_upload = None THEN caminho_imagem_atual
                    ELSE salvar_imagem(imagem_upload, uuid)
        db_payload == montar_db_payload(pl, img_path, user_tag, TRUE, now_ts)
    IN [tabela |-> [x \in DOMAIN db.tabela |->
                       [k \in DOMAIN db.tabela[x] |->
                           IF k \in DOMAIN db_payload THEN db_payload[k]
                           ELSE db.tabela[x][k]]],
        seq |-> db.seq]

\* atualizar_bda: UPDATE bda SET k = :k for every key of db_payload WHERE id = :id
atualizar_bda(db, bda_id, pl, user_tag, caminho_imagem_atual, now_ts, uuid) ==
    LET imagem_upload == Get(pl, "_imagem_upload")
        img_path == IF imagem_upload = None THEN caminho_imagem_atual
                    ELSE salvar_imagem(imagem_upload, uuid)
        db_payload == montar_db_payload(pl, img_path, user_tag, TRUE, now_ts)
    IN [tabela |-> [x \in DOMAIN db.tabela |->
                       IF x = bda_id
                       THEN [k \in DOMAIN db.tabela[x] |->
                                IF k \in DOMAIN db_payload THEN db_payload[k]
                                ELSE db.tabela[x][k]]
                       ELSE db.tabela[x]],
        seq |-> db.seq]

(***************************************************************************)
(* State                                                                   *)
(***************************************************************************)
VARIABLES
    \* the day date.today() gives and the second of the wall clock
    hoje, agora,
    \* one validation interaction: the arguments of validar_payload, the list it
    \* returned, the number of calls made, and the arguments as they were before the
    \* last call
    payload, whys_grid, causas_linhas, acoes_lista, erros, chamadas, antes,
    \* the bda table (rows by id, and the AUTOINCREMENT sequence), the uuid4 values
    \* drawn so far, per row the history of the calls made on it (the inserting
    \* actor, the updates, the last update's actor and time), and the writes made
    db, uuids, hist, escritas,
    \* a raw record and what normalizar_dados_bda returned for it
    dados, normalizado,
    \* the bda table as ensure_schema sees it: whether it exists and the declared
    \* type of each column, its rows, whether the process went past the call, and
    \* what the last call started from and met
    esquema, linhas, processo, ultima,
    \* st.session_state["auth"] of the session at the screen, and the last call of
    \* inserir_bda or atualizar_bda made from a page: the operation, the session it
    \* ran in and the widget values of the form
    sessao, ultima_escrita

envvars == <<hoje, agora>>

valvars == <<payload, whys_grid, causas_linhas, acoes_lista, erros, chamadas, antes>>

normvars == <<dados, normalizado>>

dbvars == <<db, uuids, hist, escritas>>

schemavars == <<esquema, linhas, processo, ultima>>

appvars == <<sessao, ultima_escrita>>

vars == <<envvars, valvars, dbvars, normvars, schemavars, appvars>>

(***************************************************************************)
(* Inputs of the validator                                                 *)
(***************************************************************************)
\* number of fields of a base payload that an input may change
MaxDesvios == 1

\* calls of validar_payload on the same lists
MaxChamadas == 2

\* the last day the run may reach
MaxDia == 2

\* seconds the clock may advance
MaxRelogio == 1

\* actions in an input action list
MaxAcoes == 2

TX == Str(<<"x">>)

BLANK == Str(<<" ">>)

TextoKeys ==
    {"equipamento", "secao", "numero_ordem", "numero_bda", "time_bda", "dono_bda",
     "componentes", "principio_funcionamento", "aconteceu_onde", "aconteceu_antes",
     "descricao_reparo", "modo_falha"}

PayloadKeys ==
    {ObrigEventoKeys[i] : i \in 1..Len(ObrigEventoKeys)}
        \cup {PlanKeys[i] : i \in 1..Len(PlanKeys)} \cup {"existe_plano"}

\* the dict formulario_bda returns for a form filled in full, plan shown or hidden
FormPreenchido(existe_plano) ==
    [k \in PayloadKeys |->
        CASE k = "existe_plano" -> existe_plano
          [] k = "data_quebra" -> PyDate(1)
          [] k = "hora_quebra" -> PyTime(8, 30, 0, 0)
          [] k = "tempo_reparo_h" -> PyFloat(1)
          [] k = "periodicidade_dias" -> IF existe_plano = SIM THEN PyInt(7) ELSE PyInt(0)
          [] k = "ultima_realizacao" -> IF existe_plano = SIM THEN PyDate(1) ELSE None
          [] k \in {"plano_sap", "descricao_plano", "ultimo_executante", "status_plano"} ->
                 IF existe_plano = SIM THEN TX ELSE EMPTY
          [] OTHER -> TX]

\* the dict formulario_bda(modo="novo") returns before the user types anything
FormNovo ==
    [k \in PayloadKeys |->
        CASE k = "existe_plano" -> SIM
          [] k \in {"data_quebra", "ultima_realizacao"} -> PyDate(1)
          [] k = "hora_quebra" -> PyTime(8, 30, 0, 0)
          [] k = "tempo_reparo_h" -> PyFloat(0)
          [] k = "periodicidade_dias" -> PyInt(0)
          [] k \in {"categoria_evento", "status_plano"} -> TX
          [] OTHER -> EMPTY]

\* a payload with the key k dropped
SemChave(p, k) == [x \in DOMAIN p \ {k} |-> p[x]]

\* the values one field may be changed to
DesvioVals(k) ==
    {None, EMPTY, BLANK}
        \cup (IF k = "existe_plano" THEN {SIM, NAO, TX} ELSE {})
        \cup (IF k \in {"tempo_reparo_h", "periodicidade_dias"} THEN {PyFloat(0)} ELSE {})

\* the payloads of P with up to n fields changed or dropped
RECURSIVE Desvios(_, _)
Desvios(P, n) ==
    IF n = 0 THEN P
    ELSE Desvios(P \cup UNION {{DictSet(pk[1], pk[2], v) : v \in DesvioVals(pk[2])} :
                                   pk \in P \X PayloadKeys}
                   \cup {SemChave(pk[1], pk[2]) : pk \in P \X PayloadKeys},
                 n - 1)

PayloadsBase == {FormPreenchido(SIM), FormPreenchido(NAO), FormNovo}

PayloadsWide == Desvios(PayloadsBase, MaxDesvios)

PayloadsPlano == {FormPreenchido(SIM), FormPreenchido(NAO), DictSet(FormPreenchido(SIM), "existe_plano", EMPTY), SemChave(FormPreenchido(NAO), "existe_plano")}

\* a why row of the form: every position present, filled at the positions of pat
Linha(pat) == [k \in {PQ(j) : j \in 1..COLS} |-> IF \E j \in pat : PQ(j) = k THEN TX ELSE EMPTY]

\* rows of other shapes: None, a dict without the empty positions, a blank position
LinhasOutras ==
    {None,
     [k \in {"pq1", "pq3"} |-> TX],
     [k \in {"pq1", "pq2", "pq3"} |-> IF k = "pq2" THEN None ELSE TX],
     [k \in {PQ(j) : j \in 1..COLS} |-> IF k = "pq1" THEN BLANK ELSE EMPTY]}

LinhasTodas == {Linha(pat) : pat \in SUBSET (1..COLS)} \cup LinhasOutras

LinhasAlgumas == {Linha({}), Linha({1, 2, 3}), Linha({2, 3, 5}), Linha({1, 2, 3, 4})}

LinhasPoucas == {Linha({}), Linha({1, 3, 4}), Linha(1..5)}

\* ROWS of formulario_bda
ROWS == 5

GridsWide ==
    {<<r1, r2, r3, r3, r3>> : r1 \in LinhasTodas, r2 \in LinhasAlgumas, r3 \in LinhasPoucas}

\* the cause entry of row i as the form builds it
Causa(i, texto) == [linha |-> PyInt(i), causa |-> texto, ultimo_por_que |-> PyInt(0)]

\* rows 1 and 2 each with or without a cause, rows 3 to 5 alike; and shorter lists
CausasWide ==
    {[i \in 1..ROWS |-> Causa(i, IF (IF i > 3 THEN 3 ELSE i) \in c THEN TX ELSE EMPTY)] :
         c \in SUBSET (1..3)}
        \cup {<<>>, <<Causa(1, TX), [causa |-> TX]>>}

GridBom == <<Linha(1..4), Linha({}), Linha({}), Linha({}), Linha({})>>

CausasBoas == [i \in 1..ROWS |-> Causa(i, IF i = 1 THEN TX ELSE EMPTY)]

GridRuim == [i \in 1..ROWS |-> Linha({1, 3})]

CausasRuins == [i \in 1..ROWS |-> Causa(i, EMPTY)]

\* descriptions and responsibles an input action may hold
DescVals ==
    {EMPTY, BLANK, TX, Str(AUTO_DESC), Str(<<"I", "M", "P">>), Str(<<"x", "i", "m", "p", "x">>),
     Str(<<"I", "m">>)}

RespVals == {EMPTY, TX}

Acao(desc, resp) ==
    [descricao |-> desc, categoria |-> TX, responsavel |-> resp, prazo |-> Str(DateStr(1))]

AcoesPossiveis ==
    {Acao(d, r) : d \in DescVals, r \in RespVals} \cup {[responsavel |-> TX], [descricao |-> TX]}

AcoesWide == UNION {[1..n -> AcoesPossiveis] : n \in 0..MaxAcoes}

AcoesBoas == <<Acao(TX, TX)>>

AcoesRuins == <<Acao(EMPTY, EMPTY)>>

(***************************************************************************)
(* The validation interaction                                              *)
(***************************************************************************)
\* the table, untouched while a validation interaction is followed
DBParado == db = [tabela |-> << >>, seq |-> 0] /\ uuids = 0 /\ hist = << >> /\ escritas = 0

\* no raw record is being normalized
NormParado == dados = << >> /\ normalizado = [feito |-> FALSE]

\* ensure_schema is not followed: the table is the one the current code creates;
\* and no page is followed
EsquemaParado ==
    /\ esquema = [existe |-> TRUE, cols |-> << >>]
    /\ linhas = <<>>
    /\ processo = "em_execucao"
    /\ ultima = [feita |-> FALSE]
    /\ sessao = None
    /\ ultima_escrita = [op |-> "nenhuma"]

\* the day and the clock at the start of a run
InitEnv == hoje = 1 /\ agora = 0

\* the validation interaction, untouched while the table is followed
ValParado ==
    /\ payload = << >> /\ whys_grid = <<>> /\ causas_linhas = <<>> /\ acoes_lista = <<>>
    /\ erros = <<>> /\ chamadas = 0 /\ antes = << >>

InitComum ==
    /\ InitEnv
    /\ DBParado
    /\ NormParado
    /\ EsquemaParado
    /\ chamadas = 0
    /\ erros = <<>>
    /\ antes = [acoes_lista |-> acoes_lista, causas_linhas |-> causas_linhas,
                hoje |-> hoje, inicial |-> acoes_lista]

\* the record's fields vary; the diagnostic and the actions are all good or all bad
InitCampos ==
    /\ payload \in PayloadsWide
    /\ \/ whys_grid = GridBom /\ causas_linhas = CausasBoas /\ acoes_lista = AcoesBoas
       \/ whys_grid = GridRuim /\ causas_linhas = CausasRuins /\ acoes_lista = AcoesRuins
    /\ InitComum

\* the why rows and the causes vary
InitDiag ==
    /\ payload = FormPreenchido(SIM)
    /\ whys_grid \in GridsWide
    /\ causas_linhas \in CausasWide
    /\ acoes_lista = AcoesBoas
    /\ InitComum

\* the action list and the plan-existence flag vary
InitAcoes ==
    /\ payload \in PayloadsPlano
    /\ whys_grid = GridBom
    /\ causas_linhas = CausasBoas
    /\ acoes_lista \in AcoesWide
    /\ InitComum

\* one call erros = validar_payload(payload, whys_grid, causas_linhas, acoes_lista)
Validar ==
    /\ chamadas < MaxChamadas
    /\ LET r == validar_payload(payload, whys_grid, causas_linhas, acoes_lista, hoje)
       IN /\ erros' = r.erros
          /\ causas_linhas' = r.causas_linhas
          /\ acoes_lista' = r.acoes_lista
    /\ antes' = [acoes_lista |-> acoes_lista, causas_linhas |-> causas_linhas,
                 hoje |-> hoje, inicial |-> antes.inicial]
    /\ chamadas' = chamadas + 1
    /\ UNCHANGED <<payload, whys_grid, envvars, dbvars, normvars, schemavars, appvars>>

\* midnight passes: date.today() advances
PassaDia ==
    /\ hoje < MaxDia
    /\ hoje' = hoje + 1
    /\ UNCHANGED <<agora, valvars, dbvars, normvars, schemavars, appvars>>

\* the wall clock advances
Relogio ==
    /\ agora < MaxRelogio
    /\ agora' = agora + 1
    /\ UNCHANGED <<hoje, valvars, dbvars, normvars, schemavars, appvars>>

NextVal == Validar \/ PassaDia

SpecCampos == InitCampos /\ [][NextVal]_vars

SpecDiag == InitDiag /\ [][NextVal]_vars

SpecAcoes == InitAcoes /\ [][NextVal]_vars

\* a grid whose first row is four deep and whose second row stops at the second why
GridMisto == <<Linha(1..4), Linha({1, 2}), Linha({}), Linha({}), Linha({})>>

\* cause lists: the form's with one cause, with none, with stamps of an earlier
\* call, a short one, an empty one
CausasVariadas ==
    {CausasBoas, CausasRuins,
     [i \in 1..ROWS |-> [linha |-> PyInt(i), causa |-> TX, ultimo_por_que |-> PyInt(2)]],
     <<Causa(1, TX), [causa |-> TX]>>, <<>>}

\* action lists: empty, one good, one blank, the canned phrase without
\* responsible, the five rows of the form
AcoesVariadas ==
    {<<>>, AcoesBoas, AcoesRuins, <<Acao(Str(AUTO_DESC), EMPTY)>>,
     [i \in 1..5 |-> Acao(TX, TX)]}

\* the flag, the grid, the causes and the actions vary together
InitEscopo ==
    /\ payload \in PayloadsPlano
    /\ whys_grid \in {GridBom, GridRuim, GridMisto}
    /\ causas_linhas \in CausasVariadas
    /\ acoes_lista \in AcoesVariadas
    /\ InitComum

SpecEscopo == InitEscopo /\ [][NextVal]_vars

(***************************************************************************)
(* The table over a run of inserts and updates                             *)
(***************************************************************************)
\* rows the table may hold
MaxRegistros == 2

\* uuid4 values salvar_imagem may draw
MaxUuid == 2

\* calls of inserir_bda and atualizar_bda in a run
MaxEscritas == 3

\* f"{email} ({role})" of two sessions
UserTags == {Str(<<"a", "@", "x", " ", "(", "C", ")">>), Str(<<"b", "@", "x", " ", "(", "T", ")">>)}

\* the dict formulario_bda returns: the fields, the three lists under both of their
\* keys, the stored image path and the upload
PayloadCompleto(p, whys, causas, acoes, caminho, upload) ==
    [k \in DOMAIN p \cup {"cinco_porques_grid", "causas_linhas", "acoes_lista",
                          "caminho_imagem", "_whys_grid", "_causas_linhas",
                          "_acoes_lista", "_imagem_upload"} |->
        CASE k \in {"cinco_porques_grid", "_whys_grid"} -> PyList(whys)
          [] k \in {"causas_linhas", "_causas_linhas"} -> PyList(causas)
          [] k \in {"acoes_lista", "_acoes_lista"} -> PyList(acoes)
          [] k = "caminho_imagem" -> caminho
          [] k = "_imagem_upload" -> upload
          [] OTHER -> p[k]]

\* a form that passed validation on day 1, with the lists as validation left them
PayloadValidado(existe_plano, upload) ==
    LET p == FormPreenchido(existe_plano)
        r == validar_payload(p, GridBom, CausasBoas, AcoesBoas, 1)
    IN PayloadCompleto(p, GridBom, r.causas_linhas, r.acoes_lista, EMPTY, upload)

\* uploads whose names end in ".P" and in no extension
Uploads == {Upload(<<".", "P">>), Upload(<<>>)}

PayloadsDB ==
    {PayloadValidado(SIM, None), PayloadValidado(NAO, Upload(<<".", "P">>)),
     PayloadValidado(SIM, Upload(<<>>))}

InitDB ==
    /\ InitEnv
    /\ ValParado
    /\ NormParado
    /\ EsquemaParado
    /\ db = [tabela |-> << >>, seq |-> 0]
    /\ uuids = 0
    /\ hist = << >>
    /\ escritas = 0

\* a caller runs inserir_bda(payload, user_tag)
Inserir ==
    /\ Cardinality(DOMAIN db.tabela) < MaxRegistros
    /\ escritas < MaxEscritas
    /\ escritas' = escritas + 1
    /\ \E pl \in PayloadsDB, u \in UserTags :
          /\ Get(pl, "_imagem_upload") # None => uuids < MaxUuid
          /\ db' = inserir_bda(db, pl, u, IsoTs(hoje, agora), uuids + 1)
          /\ hist' = [x \in DOMAIN hist \cup {db.seq + 1} |->
                         IF x = db.seq + 1
                         THEN [criador |-> u, atualizacoes |-> 0, por |-> None, em |-> None,
                               imagem_antes |-> None, upload |-> None, uuid |-> 0]
                         ELSE hist[x]]
          /\ uuids' = IF Get(pl, "_imagem_upload") # None THEN uuids + 1 ELSE uuids
    /\ UNCHANGED <<envvars, valvars, normvars, schemavars, appvars>>

\* the edit page runs atualizar_bda(sel_id, payload_edit, user_tag,
\* caminho_imagem_atual=row_db.get("caminho_imagem")) on a row it has just read
Atualizar ==
    /\ escritas < MaxEscritas
    /\ escritas' = escritas + 1
    /\ \E id \in DOMAIN db.tabela, pl \in PayloadsDB, u \in UserTags :
          LET atual == db.tabela[id].caminho_imagem
          IN  /\ Get(pl, "_imagem_upload") # None => uuids < MaxUuid
              /\ db' = atualizar_bda(db, id, pl, u, atual, IsoTs(hoje, agora), uuids + 1)
              /\ hist' = [x \in DOMAIN hist |->
                             IF x = id
                             THEN [criador |-> hist[x].criador,
                                   atualizacoes |-> IF hist[x].atualizacoes < 2
                                                    THEN hist[x].atualizacoes + 1 ELSE 2,
                                   por |-> u, em |-> IsoTs(hoje, agora),
                                   imagem_antes |-> atual,
                                   upload |-> Get(pl, "_imagem_upload"),
                                   uuid |-> uuids + 1]
                             ELSE hist[x]]
              /\ uuids' = IF Get(pl, "_imagem_upload") # None THEN uuids + 1 ELSE uuids
    /\ UNCHANGED <<envvars, valvars, normvars, schemavars, appvars>>

NextDB == Inserir \/ Atualizar \/ Relogio

Spec == InitDB /\ [][NextDB]_vars

(***************************************************************************)
(* Raw records and their normalization                                     *)
(***************************************************************************)
\* stands for a key the raw record does not have
Ausente == [t |-> "ausente"]

T0830 == <<"0", "8", ":", "3", "0">>

\* raw values of a date column: absent, NULL as None, NaN or (in a frame whose
\* date columns went through pd.to_datetime) NaT, blank texts, a
\* text that is no date, the ISO text of day 5 alone and with a time, a date, a
\* Timestamp
RawDatas ==
    {Ausente, None, NaN, NaT, EMPTY, BLANK, Str(<<"a", "b", "c">>), Str(DateStr(5)),
     Str(<<" ">> \o DateStr(5) \o <<" ">> \o T0830), PyDate(5),
     PyDateTime(5, PyTime(8, 30, 0, 0))}

\* raw texts of hora_quebra that are no time: a word, a word after the hour, an
\* hour past 23, seconds with a fraction, an empty part
HorasMalformadas ==
    {Str(<<"a", "b">>), Str(T0830 \o <<":", "x">>), Str(<<"2", "5", ":", "0", "0">>),
     Str(T0830 \o <<":", "0", "0", ".", "1", "2">>), Str(<<":", "3", "0">>)}

\* raw values of hora_quebra: absent, None, NaN, blank texts, malformed texts,
\* HH:MM:SS, HH:MM and HH texts, a time, a Timestamp
RawHoras ==
    {Ausente, None, NaN, EMPTY, BLANK} \cup HorasMalformadas
        \cup {Str(T0830 \o <<":", "0", "7">>), Str(<<" ">> \o T0830), Str(<<"8">>),
              PyTime(8, 30, 0, 0), PyDateTime(5, PyTime(8, 30, 7, 0))}

RawUltimas == {Ausente, None, NaT, EMPTY, Str(<<"a", "b", "c">>), Str(DateStr(5)), PyDate(5)}

\* the row inserir_bda stores for a validated form, read back as a dict
LinhaArmazenada ==
    inserir_bda([tabela |-> << >>, seq |-> 0], PayloadValidado(SIM, None),
                Str(<<"a">>), IsoTs(1, 0), 1).tabela[1]

\* a row of the first schema generation: few columns, none of the later ones
LinhaLegada == [equipamento |-> TX, plano_sap |-> None, tempo_reparo_h |-> NaN]

\* d with d[k] = v, or without the key k when v stands for absence
ComCampo(d, k, v) == IF v = Ausente THEN SemChave(d, k) ELSE DictSet(d, k, v)

\* raw values of existe_plano: absent, NULL, empty, the two answers, the answer in
\* lower case, another text
RawExistePlano == {Ausente, None, EMPTY, SIM, NAO, Str(<<"s", "i", "m">>), TX}

\* raw values of plano_sap: absent, NULL, empty, a plan number
RawPlanoSap == {Ausente, None, EMPTY, TX}

\* the three columns holding JSON text
ChavesAninhadas == {"cinco_porques_grid", "causas_linhas", "acoes_lista"}

\* raw values of a nested field: absent, NULL, empty and blank texts, texts that
\* are no JSON, the texts "[]", " {}" and "null", the text json.dumps wrote for a
\* list of one action, NaN, a number, an empty list, a list of one action, a dict
RawAninhados ==
    {Ausente, None, EMPTY, BLANK, Str(<<"a", "b">>), Str(<<"[">>), Str(<<"[", "]">>),
     Str(<<" ", "{", "}">>), Str(<<"n", "u", "l", "l">>), JsonDumps(PyList(AcoesBoas)),
     NaN, PyInt(3), PyList(<<>>), PyList(AcoesBoas), Acao(TX, TX)}

RawRecords ==
    {<< >>}
        \cup {ComCampo(b, k, v) :
                  b \in {LinhaArmazenada, LinhaLegada}, k \in ChavesAninhadas,
                  v \in RawAninhados}
        \cup {ComCampo(ComCampo(b, "existe_plano", e), "plano_sap", ps) :
                  b \in {LinhaArmazenada, LinhaLegada}, e \in RawExistePlano,
                  ps \in RawPlanoSap}
        \cup {ComCampo(ComCampo(ComCampo(b, "data_quebra", dq), "hora_quebra", hq),
                       "ultima_realizacao", ur) :
                  b \in {LinhaArmazenada, LinhaLegada}, dq \in RawDatas, hq \in RawHoras,
                  ur \in RawUltimas}

\* datetime.now().time() at second agora of the clock
Now(seg) == PyTime(9, 15, seg, 42)

InitNorm ==
    /\ InitEnv
    /\ EsquemaParado
    /\ ValParado
    /\ DBParado
    /\ dados \in RawRecords
    /\ normalizado = [feito |-> FALSE]

\* a reader calls normalizar_dados_bda(dados)
Normalizar ==
    /\ normalizado' = [feito |-> TRUE, res |-> normalizar_dados_bda(dados, hoje, Now(agora)),
                       hoje |-> hoje, agora |-> agora]
    /\ UNCHANGED <<dados, envvars, valvars, dbvars, schemavars, appvars>>

NextNorm == Normalizar \/ PassaDia \/ Relogio

SpecNorm == InitNorm /\ [][NextNorm]_vars

(***************************************************************************)
(* ensure_schema                                                           *)
(***************************************************************************)
\* the columns of CREATE TABLE IF NOT EXISTS bda, with their declared types
ColunasCriacao ==
    [id |-> "INTEGER", equipamento |-> "TEXT", secao |-> "TEXT", data_quebra |-> "DATE",
     hora_quebra |-> "TIME", tempo_reparo_h |-> "REAL", numero_ordem |-> "TEXT",
     numero_bda |-> "TEXT", turno |-> "TEXT", centro_custo |-> "TEXT",
     aconteceu_onde |-> "TEXT", aconteceu_antes |-> "TEXT", descricao_reparo |-> "TEXT",
     modo_falha |-> "TEXT", acoes_corretivas |-> "TEXT", responsavel_corretiva |-> "TEXT",
     quando_corretiva |-> "DATE", plano_sap |-> "TEXT", descricao_plano |-> "TEXT",
     responsavel_plano |-> "TEXT", periodicidade_dias |-> "INTEGER",
     ultima_realizacao |-> "DATE", caminho_imagem |-> "TEXT", criticidade |-> "TEXT",
     categoria |-> "TEXT", classificacao |-> "TEXT", causa_raiz |-> "TEXT",
     cinco_porques |-> "TEXT", componentes |-> "TEXT", custo_pecas |-> "REAL",
     custo_mo |-> "REAL", created_at |-> "TIMESTAMP", time_bda |-> "TEXT",
     dono_bda |-> "TEXT", categoria_evento |-> "TEXT", cinco_porques_grid |-> "TEXT",
     acoes_lista |-> "TEXT", ultimo_executante |-> "TEXT", status_plano |-> "TEXT",
     existe_plano |-> "TEXT", principio_funcionamento |-> "TEXT", causas_linhas |-> "TEXT"]

\* new_cols, in the order the dict is written
new_cols ==
    <<[col |-> "time_bda", typ |-> "TEXT"], [col |-> "dono_bda", typ |-> "TEXT"],
      [col |-> "categoria_evento", typ |-> "TEXT"],
      [col |-> "cinco_porques_grid", typ |-> "TEXT"], [col |-> "acoes_lista", typ |-> "TEXT"],
      [col |-> "ultimo_executante", typ |-> "TEXT"], [col |-> "status_plano", typ |-> "TEXT"],
      [col |-> "existe_plano", typ |-> "TEXT"],
      [col |-> "principio_funcionamento", typ |-> "TEXT"],
      [col |-> "causas_linhas", typ |-> "TEXT"], [col |-> "criado_por", typ |-> "TEXT"],
      [col |-> "atualizado_por", typ |-> "TEXT"], [col |-> "atualizado_em", typ |-> "TIMESTAMP"]>>

NovasColunas == {new_cols[i].col : i \in 1..Len(new_cols)}

\* the loop "for col, typ in new_cols.items()" from entry i on, over the column map
\* cols: existing is the set PRAGMA table_info returned before the loop, falhas the
\* columns whose ALTER TABLE raises in this call. The exception is not caught: the
\* loop ends at the first ALTER that raises.
RECURSIVE MigrarColunas(_, _, _, _, _)
MigrarColunas(cols, existing, i, falhas, tentadas) ==
    IF i > Len(new_cols) THEN [cols |-> cols, levantou |-> FALSE, tentadas |-> tentadas]
    ELSE LET col == new_cols[i].col
         IN IF col \in existing
            THEN MigrarColunas(cols, existing, i + 1, falhas, tentadas)
            ELSE IF col \in falhas
            THEN [cols |-> cols, levantou |-> TRUE, tentadas |-> tentadas \cup {col}]
            ELSE MigrarColunas([c \in DOMAIN cols \cup {col} |->
                                   IF c = col THEN new_cols[i].typ ELSE cols[c]],
                               existing, i + 1, falhas, tentadas \cup {col})

TabelaCriada_Sempre(esq) == [existe |-> TRUE, cols |-> ColunasCriacao]

\* CREATE TABLE IF NOT EXISTS: the table as it is, or the new empty one
TabelaCriada(esq) == IF esq.existe THEN esq ELSE [existe |-> TRUE, cols |-> ColunasCriacao]

\* ALTER TABLE ADD COLUMN on the rows: each row holds NULL in a column it lacked
LinhasComColunas(ls, cols) ==
    [n \in 1..Len(ls) |->
        [c \in DOMAIN cols |-> IF c \in DOMAIN ls[n] THEN ls[n][c] ELSE None]]

\* ensure_schema() when the ALTER TABLE of the columns in falhas raises
ensure_schema(esq, ls, falhas) ==
    LET criada == TabelaCriada(esq)
        m == MigrarColunas(criada.cols, DOMAIN criada.cols, 1, falhas, {})
    IN [esquema |-> [existe |-> TRUE, cols |-> m.cols],
        linhas |-> LinhasComColunas(ls, m.cols),
        levantou |-> m.levantou,
        tentadas |-> m.tentadas]

\* ALTER TABLE statements that may raise during one call
MaxFalhas == 1

\* stored rows at a process start
MaxLinhas == 2

\* the column map of CREATE TABLE without the columns of cs
SemColunas(cs) == [c \in DOMAIN ColunasCriacao \ cs |-> ColunasCriacao[c]]

\* d with one more column
ComColuna(cols, c, typ) == [x \in DOMAIN cols \cup {c} |-> IF x = c THEN typ ELSE cols[x]]

\* the table at a process start: absent; of a generation before any registry
\* column; with the first registry columns; as the current CREATE TABLE writes it;
\* with the audit columns; and with an audit column declared with another type
Geracoes ==
    {[existe |-> FALSE, cols |-> << >>],
     [existe |-> TRUE, cols |-> SemColunas(NovasColunas)],
     [existe |-> TRUE, cols |-> SemColunas({new_cols[i].col : i \in 4..Len(new_cols)})],
     [existe |-> TRUE, cols |-> ColunasCriacao],
     [existe |-> TRUE,
      cols |-> ComColuna(ComColuna(ComColuna(ColunasCriacao, "criado_por", "TEXT"),
                                   "atualizado_por", "TEXT"), "atualizado_em", "TIMESTAMP")],
     [existe |-> TRUE, cols |-> ComColuna(SemColunas(NovasColunas), "atualizado_em", "TEXT")]}

\* row n of a table with the columns cols: every column filled, or every one NULL
LinhaDe(cols, n, v) == [c \in DOMAIN cols |-> IF c = "id" THEN PyInt(n) ELSE v]

InitEsquema ==
    /\ InitEnv
    /\ ValParado
    /\ DBParado
    /\ NormParado
    /\ esquema \in Geracoes
    /\ \E n \in 0..MaxLinhas, v \in {TX, None} :
          linhas = [i \in 1..(IF esquema.existe THEN n ELSE 0) |-> LinhaDe(esquema.cols, i, v)]
    /\ processo = "parado"
    /\ ultima = [feita |-> FALSE]
    /\ sessao = None
    /\ ultima_escrita = [op |-> "nenhuma"]

\* a process starts: the module runs ensure_schema() before anything else; some
\* ALTER TABLE statements may raise, and the exception leaves the call and ends
\* the script
IniciarProcesso ==
    /\ \E falhas \in {f \in SUBSET NovasColunas : Cardinality(f) <= MaxFalhas} :
          LET r == ensure_schema(esquema, linhas, falhas)
          IN /\ esquema' = r.esquema
             /\ linhas' = r.linhas
             /\ processo' = IF r.levantou THEN "abortado" ELSE "em_execucao"
             /\ ultima' = [feita |-> TRUE, esquema |-> esquema, linhas |-> linhas,
                           falhas |-> falhas, tentadas |-> r.tentadas,
                           levantou |-> r.levantou,
                           ja_migrado |-> /\ ultima.feita
                                          /\ (ultima.ja_migrado \/ ~ultima.levantou)]
    /\ UNCHANGED <<envvars, valvars, dbvars, normvars, appvars>>

NextEsquema == IniciarProcesso

SpecEsquema == InitEsquema /\ [][NextEsquema]_vars

(***************************************************************************)
(* Properties of the audit fields                                          *)
(***************************************************************************)
\* C1: the creator of every stored record is the tag of the actor who inserted it,
\* whatever updates the record has had since.
C1_CriadorPreservado ==
    \A id \in DOMAIN db.tabela : db.tabela[id].criado_por = hist[id].criador

\* C2: the updater and the update time are both null on a record that was never
\* updated, and otherwise are the actor tag and the clock time of the last update.
C2_ParDeAtualizacao ==
    \A id \in DOMAIN db.tabela :
        LET r == db.tabela[id]
        IN IF hist[id].atualizacoes = 0
           THEN r.atualizado_por = None /\ r.atualizado_em = None
           ELSE /\ r.atualizado_por = hist[id].por
                /\ r.atualizado_em = hist[id].em
                /\ r.atualizado_por # None
                /\ r.atualizado_em # None

\* a record inserted by one actor at second 0 and updated twice, last by the other
\* actor at second 1 with the payload it was inserted with
C2_Witness ==
    \E id \in DOMAIN db.tabela :
        /\ hist[id].atualizacoes = 2
        /\ hist[id].por # hist[id].criador
        /\ db.tabela[id].created_at = IsoTs(1, 0)
        /\ db.tabela[id].atualizado_em = IsoTs(1, 1)
        /\ db.tabela[id].atualizado_por = hist[id].por
        /\ db.tabela[id].existe_plano = SIM

\* the path of the file written for an upload with the uuid drawn for it
CaminhoEsperado(upload, uuid) ==
    Str(<<"b", "d", "a", "_", Dig(uuid)>>
            \o (IF upload = Upload(<<".", "P">>) THEN <<".", "p">> ELSE <<".", "p", "n", "g">>))

\* C16: after an update without a new upload the stored caminho_imagem is the one
\* stored before the update; after an update with an upload it is the path of the
\* file just written for that upload, which no other row holds and which differs
\* from the one stored before.
C16_ImagemNaAtualizacao ==
    \A id \in DOMAIN db.tabela :
        hist[id].atualizacoes >= 1 =>
            IF hist[id].upload = None
            THEN db.tabela[id].caminho_imagem = hist[id].imagem_antes
            ELSE /\ db.tabela[id].caminho_imagem
                        = CaminhoEsperado(hist[id].upload, hist[id].uuid)
                 /\ db.tabela[id].caminho_imagem # hist[id].imagem_antes
                 /\ \A x \in DOMAIN db.tabela \ {id} :
                        db.tabela[x].caminho_imagem # db.tabela[id].caminho_imagem

\* a record inserted with an upload, updated with another upload and then updated
\* without one
C16_Witness ==
    \E id \in DOMAIN db.tabela :
        /\ hist[id].atualizacoes = 2
        /\ hist[id].upload = None
        /\ hist[id].imagem_antes = CaminhoEsperado(Upload(<<>>), 2)
        /\ db.tabela[id].caminho_imagem = CaminhoEsperado(Upload(<<>>), 2)

(***************************************************************************)
(* Properties of the validator                                             *)
(***************************************************************************)
\* occurrences of x in the sequence
Conta(seq, x) == Cardinality({i \in 1..Len(seq) : seq[i] = x})

\* the field is absent, null or a string that is blank after trimming
NuloOuBranco(p, k) ==
    \/ k \notin DOMAIN p
    \/ p[k] = None
    \/ (p[k].t = "str" /\ \A i \in 1..Len(p[k].cs) : p[k].cs[i] = " ")

\* the filled positions of why row i: those holding a non-empty text
Preenchidas(i) ==
    {j \in 1..COLS :
        /\ whys_grid[i] # None
        /\ PQ(j) \in DOMAIN whys_grid[i]
        /\ whys_grid[i][PQ(j)] \notin {None, EMPTY}}

\* the descriptions of the inputs that hold the canned phrase in some letter case
ComFraseAuto == {Str(AUTO_DESC), Str(<<"I", "M", "P">>), Str(<<"x", "i", "m", "p", "x">>)}

TemFraseAuto(lista) ==
    \E i \in 1..Len(lista) :
        "descricao" \in DOMAIN lista[i] /\ lista[i].descricao \in ComFraseAuto

\* the list holds no action yet: it is empty or every entry has an empty description
SemAcaoPrevia(lista) ==
    \A i \in 1..Len(lista) :
        "descricao" \notin DOMAIN lista[i] \/ lista[i].descricao \in {EMPTY, BLANK}

AcaoInjetadaEm(dia) ==
    [descricao |-> Str(AUTO_DESC), categoria |-> CAT_PADRAO, responsavel |-> RESP_DEFINIR,
     prazo |-> Str(DateStr(dia + 30))]

\* C3: with existe_plano = "Nao" and no pre-existing action, validation leaves the
\* list it was given followed by exactly one injected action: category
\* "Implementacao de padrao", responsible "Definir", the canned description and
\* due date = day of the validation + 30.
C3_InjecaoSemAcaoPrevia ==
    (chamadas >= 1 /\ Get(payload, "existe_plano") = NAO /\ SemAcaoPrevia(antes.acoes_lista))
        => /\ acoes_lista = Append(antes.acoes_lista, AcaoInjetadaEm(antes.hoje))
           /\ Cardinality({i \in 1..Len(acoes_lista) :
                  Get(acoes_lista[i], "categoria") = CAT_PADRAO}) = 1

C3_Witness ==
    /\ chamadas = 1
    /\ Get(payload, "existe_plano") = NAO
    /\ antes.acoes_lista = <<>>
    /\ antes.hoje = 2
    /\ acoes_lista = <<AcaoInjetadaEm(2)>>

\* C4: the injection is idempotent: over any number of validations the list grows by
\* at most one action, a validation after the first adds nothing, and no action is
\* added when a description already holds the canned phrase in any letter case.
C4_InjecaoIdempotente ==
    /\ Len(acoes_lista) <= Len(antes.inicial) + 1
    /\ chamadas >= 2 => acoes_lista = antes.acoes_lista
    /\ (chamadas >= 1 /\ TemFraseAuto(antes.acoes_lista)) => acoes_lista = antes.acoes_lista

C4_Witness ==
    /\ chamadas = 2
    /\ Get(payload, "existe_plano") = NAO
    /\ antes.inicial = <<Acao(TX, TX)>>
    /\ acoes_lista = <<Acao(TX, TX), AcaoInjetadaEm(1)>>
    /\ antes.hoje = 2

\* C5: row i gets the sequencing error, once, exactly when its filled positions are
\* not a prefix 1..n of the positions (some position is filled after an empty one).
C5_ErroSequencia ==
    chamadas >= 1 =>
        \A i \in 1..Len(whys_grid) :
            Conta(erros, ErrSequencia(i))
                = IF \E n \in 0..COLS : Preenchidas(i) = 1..n THEN 0 ELSE 1

C5_Witness ==
    /\ chamadas >= 1
    /\ Preenchidas(1) = {1, 3}
    /\ Conta(erros, ErrSequencia(1)) = 1
    /\ Preenchidas(2) = {1, 2, 3}
    /\ Conta(erros, ErrSequencia(2)) = 0

\* C6: the global depth error is emitted, once, exactly when no row has at least 4
\* filled positions.
C6_ErroMinimo4 ==
    chamadas >= 1 =>
        Conta(erros, ErrMin4)
            = IF \E i \in 1..Len(whys_grid) : Cardinality(Preenchidas(i)) >= 4 THEN 0 ELSE 1

C6_Witness ==
    /\ chamadas >= 1
    /\ Len(whys_grid) = 5
    /\ \A i \in 1..5 : Cardinality(Preenchidas(i)) = 3
    /\ \E i \in 1..5 : Preenchidas(i) = {1, 2, 3}
    /\ Conta(erros, ErrMin4) = 1

PlanLabels == {Labels[PlanKeys[i]] : i \in 1..Len(PlanKeys)}

\* C7: with existe_plano = "Sim" a null or blank plano_sap yields the "Plano SAP"
\* error; with existe_plano = "Nao" no plan-field error is emitted at all.
C7_CamposDoPlano ==
    chamadas >= 1 =>
        /\ (Get(payload, "existe_plano") = SIM /\ NuloOuBranco(payload, "plano_sap"))
               => Conta(erros, ErrCampo("Plano SAP")) = 1
        /\ Get(payload, "existe_plano") = NAO
               => \A l \in PlanLabels : Conta(erros, ErrCampo(l)) = 0

C7_Witness ==
    /\ chamadas >= 1
    /\ Get(payload, "existe_plano") = SIM
    /\ "plano_sap" \in DOMAIN payload /\ payload.plano_sap = BLANK
    /\ Conta(erros, ErrCampo("Plano SAP")) = 1

\* C8: every mandatory event field gets exactly one error naming its label when it
\* is null, absent or blank after trimming, and none when it is filled.
C8_CamposObrigatorios ==
    chamadas >= 1 =>
        \A i \in 1..Len(ObrigEventoKeys) :
            Conta(erros, ErrCampo(Labels[ObrigEventoKeys[i]]))
                = IF NuloOuBranco(payload, ObrigEventoKeys[i]) THEN 1 ELSE 0

\* the errors the rules of the validator call for on the current input
ErrosDevidos ==
    {ErrCampo(Labels[ObrigEventoKeys[i]]) :
         i \in {n \in 1..Len(ObrigEventoKeys) : NuloOuBranco(payload, ObrigEventoKeys[n])}}
    \cup {ErrCampo(Labels[PlanKeys[i]]) :
              i \in {n \in 1..Len(PlanKeys) :
                        Get(payload, "existe_plano") = SIM /\ NuloOuBranco(payload, PlanKeys[n])}}
    \cup {ErrSequencia(i) :
              i \in {n \in 1..Len(whys_grid) : ~\E m \in 0..COLS : Preenchidas(n) = 1..m}}
    \cup {ErrCausa(i) :
              i \in {n \in 1..Len(whys_grid) :
                        /\ Preenchidas(n) # {}
                        /\ \/ n > Len(antes.causas_linhas)
                           \/ Get(antes.causas_linhas[n], "causa") \in {None, EMPTY}}}
    \cup (IF \E i \in 1..Len(whys_grid) : Cardinality(Preenchidas(i)) >= 4 THEN {} ELSE {ErrMin4})
    \cup (IF \E i \in 1..Len(acoes_lista) :
                 /\ Get(acoes_lista[i], "descricao") \notin {None, EMPTY}
                 /\ Get(acoes_lista[i], "responsavel") \notin {None, EMPTY}
          THEN {} ELSE {ErrAcao})

\* C9: the returned list holds every error that applies to the input, each once, and
\* nothing else; it is empty exactly when no rule is violated.
C9_TodosOsErros ==
    chamadas >= 1 =>
        /\ {erros[i] : i \in 1..Len(erros)} = ErrosDevidos
        /\ Len(erros) = Cardinality(ErrosDevidos)

\* the deepest filled position of why row i, 0 when none is filled
UltimoPreenchido(i) ==
    IF Preenchidas(i) = {} THEN 0
    ELSE CHOOSE j \in Preenchidas(i) : \A m \in Preenchidas(i) : m <= j

\* row i has a filled position and, in the list given to the last call, no cause
\* entry or one whose cause is missing, null or empty
SemCausa(i) ==
    /\ Preenchidas(i) # {}
    /\ \/ i > Len(antes.causas_linhas)
       \/ Get(antes.causas_linhas[i], "causa") \in {None, EMPTY}

AcaoConta(a) ==
    /\ Get(a, "descricao") \notin {None, EMPTY}
    /\ Get(a, "responsavel") \notin {None, EMPTY}

Raw(k) == IF k \in DOMAIN dados THEN dados[k] ELSE Ausente

\* raw dates that are absent, empty or no date
DatasSemValor == {Ausente, None, NaN, NaT, EMPTY, BLANK, Str(<<"a", "b", "c">>)}

\* raw times that are absent, empty or malformed
HorasSemValor == {Ausente, None, NaN, EMPTY, BLANK} \cup HorasMalformadas

\* what _safe_json_loads owes for a raw nested value r: r itself when r is a
\* list or a dict; the value whose JSON text r is when r is a parseable text
\* ("null" decodes to None); the empty list otherwise
AninhadoCerto(r, out) ==
    IF r = Ausente THEN out = PyList(<<>>)
    ELSE IF IsDict(r) THEN out = r
    ELSE CASE r.t = "list" -> out = r
           [] r.t = "str" /\ "json" \in DOMAIN r -> JsonOf(out) = r.json
           [] r.t = "str" /\ Strip(r.cs) = <<"[", "]">> -> out = PyList(<<>>)
           [] r.t = "str" /\ Strip(r.cs) = <<"{", "}">> -> out = << >>
           [] r.t = "str" /\ Strip(r.cs) = <<"n", "u", "l", "l">> -> out = None
           [] OTHER -> out = PyList(<<>>)

C20_ExistePlanoDerivado ==
    (normalizado.feito /\ dados # << >>) =>
        /\ normalizado.res.existe_plano
               = IF Raw("existe_plano") \in {SIM, NAO} THEN Raw("existe_plano")
                 ELSE IF Raw("plano_sap") \in {Ausente, None, EMPTY} THEN NAO
                 ELSE SIM
        /\ normalizado.res.existe_plano \in {SIM, NAO}

C20_Witness ==
    /\ normalizado.feito
    /\ Raw("existe_plano") = Str(<<"s", "i", "m">>)
    /\ Raw("plano_sap") = TX
    /\ normalizado.res.existe_plano = SIM

\* C10: for every raw record, the empty one included, the normalized record has
\* a date in data_quebra (today when the raw value is absent, empty or malformed)
\* and a time in hora_quebra (now when the raw value is absent, empty or
\* malformed), and ultima_realizacao is null when it is absent or unparseable.
C10_DataHoraNaoNulas ==
    normalizado.feito =>
        LET r == normalizado.res
        IN /\ Get(r, "data_quebra").t = "date"
           /\ Raw("data_quebra") \in DatasSemValor =>
                  Get(r, "data_quebra") = PyDate(normalizado.hoje)
           /\ Get(r, "hora_quebra").t = "time"
           /\ Raw("hora_quebra") \in HorasSemValor =>
                  Get(r, "hora_quebra") = Now(normalizado.agora)
           /\ Raw("ultima_realizacao") \in DatasSemValor => Get(r, "ultima_realizacao") = None
(***************************************************************************)
(* Insert, read back, normalize                                            *)
(***************************************************************************)
\* pd.to_datetime(value, errors="coerce") on one cell of a column: a Timestamp for
\* a text that starts with an ISO date (midnight when no time follows), NaT for
\* NULL and for any other text
ToDatetime(v) ==
    IF IsDict(v) \/ v.t # "str" \/ "cs" \notin DOMAIN v THEN NaT
    ELSE LET s == Strip(v.cs)
             d == PandasDate(s)
             resto == Strip(SubSeq(s, Len(AteEspaco(s)) + 1, Len(s)))
             tm == IF resto = <<>> THEN None ELSE TimeOfText(resto)
         IN IF d = NaT THEN NaT
            ELSE IF resto = <<>> THEN PyDateTime(d.d, PyTime(0, 0, 0, 0))
            ELSE IF tm = None THEN NaT
            ELSE PyDateTime(d.d, tm)

\* the columns pagina_consulta_editar passes through pd.to_datetime
ColunasDeData == {"data_quebra", "ultima_realizacao", "created_at", "atualizado_em"}

\* the dict a reader holds for the stored row id: SELECT * and .iloc[0].to_dict(),
\* with the date columns converted when the reader is the edit page
LinhaLida(tabela, id, pagina_editar) ==
    [k \in DOMAIN tabela[id] \cup {"id"} |->
        IF k = "id" THEN PyInt(id)
        ELSE IF pagina_editar /\ k \in ColunasDeData THEN ToDatetime(tabela[id][k])
        ELSE tabela[id][k]]

\* a record is canonical when its dates, times and numbers are typed
Canonico(r) ==
    /\ r.data_quebra.t = "date"
    /\ r.hora_quebra.t = "time"
    /\ r.ultima_realizacao.t \in {"None", "date"}
    /\ r.tempo_reparo_h.t = "float"
    /\ r.periodicidade_dias.t = "int"

\* the canonical records: what the normalizer returns for the raw records, and the
\* payloads of a validated form
Canonicos ==
    {r \in {normalizar_dados_bda(d, 1, Now(0)) : d \in RawRecords \ {<< >>}} : Canonico(r)}
        \cup {PayloadValidado(SIM, None), PayloadValidado(NAO, None)}
        \cup {PayloadCompleto(p, GridBom, CausasBoas, a, EMPTY, None) :
                  p \in PayloadsBase, a \in {AcoesBoas, AcoesRuins, <<>>}}

InitRT ==
    /\ InitEnv
    /\ DBParado
    /\ NormParado
    /\ EsquemaParado
    /\ payload \in Canonicos
    /\ whys_grid = <<>> /\ causas_linhas = <<>> /\ acoes_lista = <<>>
    /\ erros = <<>> /\ chamadas = 0 /\ antes = << >>

\* inserir_bda(payload, user_tag) on the canonical record
InserirCanonico ==
    /\ db.seq = 0
    /\ \E u \in UserTags : db' = inserir_bda(db, payload, u, IsoTs(hoje, agora), 1)
    /\ escritas' = escritas + 1
    /\ UNCHANGED <<envvars, valvars, normvars, uuids, hist, schemavars, appvars>>

\* a reader loads the stored row and normalizes it
LerDeVolta ==
    /\ db.seq = 1
    /\ ~normalizado.feito
    /\ \E pagina_editar \in BOOLEAN :
          /\ dados' = LinhaLida(db.tabela, 1, pagina_editar)
          /\ normalizado' = [feito |-> TRUE,
                             res |-> normalizar_dados_bda(dados', hoje, Now(agora)),
                             hoje |-> hoje, agora |-> agora]
    /\ UNCHANGED <<envvars, valvars, dbvars, schemavars, appvars>>

NextRT == InserirCanonico \/ LerDeVolta

SpecRT == InitRT /\ [][NextRT]_vars

(***************************************************************************)
(* Properties of the round trip                                            *)
(***************************************************************************)
\* the scalar fields of a record the form collects
CamposEscalares ==
    ColunasCopiadas
        \cup {"data_quebra", "hora_quebra", "ultima_realizacao", "tempo_reparo_h",
              "periodicidade_dias"}

ListasAninhadas == {"cinco_porques_grid", "causas_linhas", "acoes_lista"}

\* C11: inserting a canonical record and normalizing the stored row gives back
\* every scalar field (dates and times as values, break time included) and the
\* three nested lists element for element.
C11_IdaEVolta ==
    (normalizado.feito /\ db.seq = 1) =>
        /\ \A k \in CamposEscalares : normalizado.res[k] = payload[k]
        /\ \A k \in ListasAninhadas : normalizado.res[k] = payload[k]
(***************************************************************************)
(* Properties of ensure_schema                                             *)
(***************************************************************************)
\* the columns the table had before the last call are there with the same type,
\* and every row it held is there with the same value in each of those columns
NadaPerdido ==
    /\ \A c \in DOMAIN ultima.esquema.cols :
           c \in DOMAIN esquema.cols /\ esquema.cols[c] = ultima.esquema.cols[c]
    /\ Len(linhas) = Len(ultima.linhas)
    /\ \A n \in 1..Len(ultima.linhas) :
           \A c \in DOMAIN ultima.linhas[n] : linhas[n][c] = ultima.linhas[n][c]

\* C14: a call of ensure_schema, on a table of any generation and with any rows,
\* drops, renames or retypes no column and deletes or alters no row; after a call
\* that succeeded every registry column exists; and once a call has succeeded,
\* every further call leaves the columns and the rows as they were.
C14_EsquemaAditivo ==
    ultima.feita =>
        /\ NadaPerdido
        /\ ~ultima.levantou => NovasColunas \subseteq DOMAIN esquema.cols
        /\ ultima.ja_migrado => (esquema = ultima.esquema /\ linhas = ultima.linhas)

C14_Witness ==
    /\ ultima.feita
    /\ ultima.ja_migrado
    /\ ~ultima.levantou
    /\ Len(linhas) = 2
    /\ "criado_por" \in DOMAIN esquema.cols
    /\ esquema.cols["atualizado_em"] = "TEXT"

\* the registry columns the table lacked before the last call
FaltavamAntes ==
    NovasColunas \ DOMAIN TabelaCriada(ultima.esquema).cols

\* C15: when the ALTER TABLE of one registry column fails, only that column is
\* left out: every other missing registry column is still added, the process
\* is not aborted, and the existing columns and rows are kept.
C15_FalhaPorColuna ==
    ultima.feita =>
        /\ \A c \in FaltavamAntes \ ultima.falhas : c \in DOMAIN esquema.cols
        /\ processo # "abortado"
        /\ NadaPerdido
(***************************************************************************)
(* The pages: login, register, edit                                        *)
(***************************************************************************)
\* role strings: the two the login offers, and others role_permissions may be given
RolesDoLogin == {"TECNICO", "CONFIABILIDADE"}

RolesQuaisquer == RolesDoLogin \cup {" confiabilidade ", "Tecnico", "ADMIN", "", "None"}

\* (role or "").upper().strip() on the role strings above; "None" stands for None
RoleNormalizada(role) ==
    CASE role = " confiabilidade " -> "CONFIABILIDADE"
      [] role = "Tecnico" -> "TECNICO"
      [] role = "None" -> ""
      [] OTHER -> role

role_permissions_TodosEditam(role) ==
    [pode_registrar |-> TRUE, pode_editar |-> TRUE, pode_dashboard |-> TRUE]

\* role_permissions(role)
role_permissions(role) ==
    IF RoleNormalizada(role) = "CONFIABILIDADE"
    THEN [pode_registrar |-> TRUE, pode_editar |-> TRUE, pode_dashboard |-> TRUE]
    ELSE [pode_registrar |-> TRUE, pode_editar |-> FALSE, pode_dashboard |-> TRUE]

\* the e-mail typed at the login, already stripped and lower-cased
Emails == {<<"a", "@", "x">>}

\* the letters of a role inside the user tag
RoleLetras(role) == IF role = "CONFIABILIDADE" THEN <<"C">> ELSE <<"T">>

\* f"{u.get('email')} ({u.get('role')})"
UserTag(u) == Str(u.email \o <<" ", "(">> \o RoleLetras(u.role) \o <<")">>)

\* the plan fields formulario_bda returns when the plan block is hidden
PlanoLimpo ==
    [plano_sap |-> EMPTY, descricao_plano |-> EMPTY, ultimo_executante |-> EMPTY,
     periodicidade_dias |-> PyInt(0), ultima_realizacao |-> None, status_plano |-> EMPTY]

plano_do_form_SemLimpar(existe_plano, ui_plano) == ui_plano

\* if existe_plano == "Sim": the widgets' values; else: the cleared values
plano_do_form(existe_plano, ui_plano) == IF existe_plano = SIM THEN ui_plano ELSE PlanoLimpo

\* row_dict[f"pq{j}"] = val.strip() for the ROWS rows of the grid
whys_do_form(ui_whys) ==
    [i \in 1..ROWS |-> [k \in {PQ(j) : j \in 1..COLS} |-> Str(Strip(ui_whys[i][k].cs))]]

\* last_filled_index of form row i
UltimoDigitado(linha) ==
    IF \A j \in 1..COLS : Strip(linha[PQ(j)].cs) = <<>> THEN 0
    ELSE CHOOSE j \in 1..COLS :
             /\ Strip(linha[PQ(j)].cs) # <<>>
             /\ \A m \in (j + 1)..COLS : Strip(linha[PQ(m)].cs) = <<>>

\* causas_linhas.append({"linha": i + 1, "causa": causa_val.strip(), ...})
causas_do_form(ui_whys, ui_causas) ==
    [i \in 1..ROWS |->
        [linha |-> PyInt(i), causa |-> Str(Strip(ui_causas[i].cs)),
         ultimo_por_que |-> PyInt(UltimoDigitado(ui_whys[i]))]]

\* "for i in range(5)" of the actions tab
ACOES_DO_FORM == 5

\* acoes_lista.append({"descricao": desc.strip(), "categoria": cat, ...})
acoes_do_form(ui_acoes) ==
    [i \in 1..ACOES_DO_FORM |->
        [descricao |-> Str(Strip(ui_acoes[i].desc.cs)), categoria |-> ui_acoes[i].cat,
         responsavel |-> Str(Strip(ui_acoes[i].resp.cs)),
         prazo |-> IF Truthy(ui_acoes[i].prazo) THEN PyStr(ui_acoes[i].prazo) ELSE None]]

\* the dict formulario_bda(modo, dados) returns for the widget values ui; dados_n
\* is the normalized record of the edit mode
formulario_bda(modo, dados_n, ui) ==
    LET plano == plano_do_form(ui.existe_plano, ui.plano)
        p == [k \in PayloadKeys |->
                 IF k = "existe_plano" THEN ui.existe_plano
                 ELSE IF k \in DOMAIN plano THEN plano[k]
                 ELSE ui.campos[k]]
    IN PayloadCompleto(p, whys_do_form(ui.whys), causas_do_form(ui.whys, ui.causas),
                       acoes_do_form(ui.acoes),
                       IF modo = "editar" THEN GetOr(dados_n, "caminho_imagem", EMPTY)
                       ELSE EMPTY,
                       ui.imagem)

ValidacaoDoPayload_ListasCopiadas(pl, dia) ==
    LET r == validar_payload(pl, GetOr(pl, "_whys_grid", PyList(<<>>)).l,
                             GetOr(pl, "_causas_linhas", PyList(<<>>)).l,
                             GetOr(pl, "_acoes_lista", PyList(<<>>)).l, dia)
    IN [erros |-> r.erros, causas_linhas |-> r.causas_linhas,
        acoes_lista |-> r.acoes_lista, payload |-> pl]

\* the payload after validar_payload(payload, payload.get("_whys_grid", []), ...):
\* the lists are the payload's own objects, so what validation writes into
\* causas_linhas and appends to acoes_lista shows under both keys of each list
ValidacaoDoPayload(pl, dia) ==
    LET r == validar_payload(pl, GetOr(pl, "_whys_grid", PyList(<<>>)).l,
                             GetOr(pl, "_causas_linhas", PyList(<<>>)).l,
                             GetOr(pl, "_acoes_lista", PyList(<<>>)).l, dia)
    IN [erros |-> r.erros, causas_linhas |-> r.causas_linhas,
        acoes_lista |-> r.acoes_lista,
        payload |-> [k \in DOMAIN pl |->
                        CASE k \in {"causas_linhas", "_causas_linhas"} -> PyList(r.causas_linhas)
                          [] k \in {"acoes_lista", "_acoes_lista"} -> PyList(r.acoes_lista)
                          [] OTHER -> pl[k]]]

SemErros_Sempre(es) == TRUE

\* "if erros: ... st.stop()" lets the page go on to the write only with no error
SemErros(es) == es = <<>>

\* stored rows and writes in a run of the pages
MaxRegistrosApp == 1

MaxEscritasApp == 2

T_X == Str(<<" ", "x">>)

\* what the plan widgets hold: filled in, or left as the form first shows them
PlanoPreenchido ==
    [plano_sap |-> TX, descricao_plano |-> TX, ultimo_executante |-> TX,
     periodicidade_dias |-> PyInt(7), ultima_realizacao |-> PyDate(1), status_plano |-> TX]

PlanoVazio ==
    [plano_sap |-> EMPTY, descricao_plano |-> EMPTY, ultimo_executante |-> EMPTY,
     periodicidade_dias |-> PyInt(0), ultima_realizacao |-> PyDate(1), status_plano |-> TX]

\* a why row as typed: " x" at the positions of pat, a blank elsewhere
LinhaDigitada(pat) ==
    [k \in {PQ(j) : j \in 1..COLS} |-> IF \E j \in pat : PQ(j) = k THEN T_X ELSE BLANK]

\* the diagnostic as typed: one row four deep with its cause, or every row broken
\* and without cause
UiDiagnosticos ==
    {[whys |-> [i \in 1..ROWS |-> LinhaDigitada(IF i = 1 THEN 1..4 ELSE {})],
      causas |-> [i \in 1..ROWS |-> IF i = 1 THEN T_X ELSE EMPTY]],
     [whys |-> [i \in 1..ROWS |-> LinhaDigitada({1, 3})],
      causas |-> [i \in 1..ROWS |-> BLANK]]}

AcaoDigitada(desc, resp) == [desc |-> desc, cat |-> TX, resp |-> resp, prazo |-> PyDate(1)]

\* the five action rows as typed: none filled, the first filled, the first holding
\* the canned phrase, all five filled
UiAcoes ==
    {[i \in 1..ACOES_DO_FORM |-> AcaoDigitada(EMPTY, BLANK)],
     [i \in 1..ACOES_DO_FORM |-> IF i = 1 THEN AcaoDigitada(T_X, T_X) ELSE AcaoDigitada(EMPTY, EMPTY)],
     [i \in 1..ACOES_DO_FORM |->
         IF i = 1 THEN AcaoDigitada(Str(<<" ", "I", "M", "P">>), TX) ELSE AcaoDigitada(EMPTY, EMPTY)],
     [i \in 1..ACOES_DO_FORM |-> AcaoDigitada(TX, TX)]}

\* the widget values of one form
UiEntradas ==
    {[campos |-> FormPreenchido(SIM), existe_plano |-> e, plano |-> pl, whys |-> d.whys,
      causas |-> d.causas, acoes |-> a, imagem |-> None] :
         e \in {SIM, NAO}, pl \in {PlanoPreenchido, PlanoVazio}, d \in UiDiagnosticos,
         a \in UiAcoes}

InitApp ==
    /\ InitEnv
    /\ ValParado
    /\ DBParado
    /\ NormParado
    /\ EsquemaParado

\* login_page: a role of the select box, a valid e-mail and the right password
Entrar ==
    /\ sessao = None
    /\ \E role \in RolesDoLogin, email \in Emails :
          LET perms == role_permissions(role)
          IN sessao' = [role |-> role, email |-> email,
                        pode_registrar |-> perms.pode_registrar,
                        pode_editar |-> perms.pode_editar,
                        pode_dashboard |-> perms.pode_dashboard]
    /\ UNCHANGED <<envvars, valvars, dbvars, normvars, schemavars, ultima_escrita>>

\* the "Sair" button of the side bar
Sair ==
    /\ sessao # None
    /\ sessao' = None
    /\ UNCHANGED <<envvars, valvars, dbvars, normvars, schemavars, ultima_escrita>>

\* pagina_registrar with "Salvar BDA" pressed: the form in mode "novo", the
\* validation, and inserir_bda when no error is returned
SalvarNovo ==
    /\ sessao # None
    /\ sessao.pode_registrar
    /\ \E ui \in UiEntradas :
          \E v \in {ValidacaoDoPayload(formulario_bda("novo", << >>, ui), hoje)} :
          LET aceito == SemErros(v.erros)
          IN /\ aceito => (escritas < MaxEscritasApp
                             /\ Cardinality(DOMAIN db.tabela) < MaxRegistrosApp)
             /\ payload' = v.payload
             /\ erros' = v.erros
             /\ whys_grid' = v.payload["_whys_grid"].l
             /\ causas_linhas' = v.causas_linhas
             /\ acoes_lista' = v.acoes_lista
             /\ db' = IF aceito
                      THEN inserir_bda(db, v.payload, UserTag(sessao), IsoTs(hoje, agora),
                                       uuids + 1)
                      ELSE db
             /\ escritas' = IF aceito THEN escritas + 1 ELSE escritas
             /\ ultima_escrita' = IF aceito
                                  THEN [op |-> "inserir", sessao |-> sessao, ui |-> ui,
                                        id |-> db.seq + 1,
                                        causas_linhas |-> v.causas_linhas,
                                        acoes_lista |-> v.acoes_lista]
                                  ELSE ultima_escrita
    /\ UNCHANGED <<envvars, chamadas, antes, uuids, hist, normvars, schemavars, sessao>>

\* pagina_consulta_editar with a row selected and "Salvar alteracoes" pressed (the
\* button is live only under pode_editar): the form in mode "editar" on the row
\* read, the validation, and atualizar_bda when no error is returned
SalvarEdicao ==
    /\ sessao # None
    /\ sessao.pode_editar
    /\ \E sel_id \in DOMAIN db.tabela, ui \in UiEntradas :
          \E row_db \in {LinhaLida(db.tabela, sel_id, TRUE)} :
          \E v \in {ValidacaoDoPayload(
                        formulario_bda("editar",
                                       normalizar_dados_bda(row_db, hoje, Now(agora)), ui),
                        hoje)} :
          LET aceito == SemErros(v.erros)
          IN /\ aceito => escritas < MaxEscritasApp
             /\ payload' = v.payload
             /\ erros' = v.erros
             /\ whys_grid' = v.payload["_whys_grid"].l
             /\ causas_linhas' = v.causas_linhas
             /\ acoes_lista' = v.acoes_lista
             /\ db' = IF aceito
                      THEN atualizar_bda(db, sel_id, v.payload, UserTag(sessao),
                                         Get(row_db, "caminho_imagem"), IsoTs(hoje, agora),
                                         uuids + 1)
                      ELSE db
             /\ escritas' = IF aceito THEN escritas + 1 ELSE escritas
             /\ ultima_escrita' = IF aceito
                                  THEN [op |-> "atualizar", sessao |-> sessao, ui |-> ui,
                                        id |-> sel_id,
                                        causas_linhas |-> v.causas_linhas,
                                        acoes_lista |-> v.acoes_lista]
                                  ELSE ultima_escrita
    /\ UNCHANGED <<envvars, chamadas, antes, uuids, hist, normvars, schemavars, sessao>>

NextApp == Entrar \/ Sair \/ SalvarNovo \/ SalvarEdicao

SpecApp == InitApp /\ [][NextApp]_vars
(***************************************************************************)
(* Properties of the pages                                                 *)
(***************************************************************************)
\* the plan fields of a stored row or of a payload are empty, zero or null
PlanoEmBranco(r) ==
    /\ r.plano_sap = EMPTY
    /\ r.descricao_plano = EMPTY
    /\ r.ultimo_executante = EMPTY
    /\ r.periodicidade_dias = PyInt(0)
    /\ r.ultima_realizacao = None
    /\ r.status_plano = EMPTY

\* C17: with existe_plano = "Nao" the plan fields are cleared and ignored whatever
\* the plan widgets hold: the validation of such a form returns no plan-field
\* error, and every row written with existe_plano = "Nao" holds the six plan fields
\* empty, zero or null.
C17_PlanoIgnoradoComNao ==
    /\ \A id \in DOMAIN db.tabela :
           db.tabela[id].existe_plano = NAO => PlanoEmBranco(db.tabela[id])
    /\ Get(payload, "existe_plano") = NAO =>
           /\ PlanoEmBranco(payload)
           /\ \A l \in PlanLabels : Conta(erros, ErrCampo(l)) = 0

\* a row updated from a form whose plan widgets were filled in while the answer
\* was "Nao"
C17_Witness ==
    /\ ultima_escrita.op = "atualizar"
    /\ ultima_escrita.ui.existe_plano = NAO
    /\ ultima_escrita.ui.plano = PlanoPreenchido
    /\ db.tabela[ultima_escrita.id].existe_plano = NAO
    /\ db.tabela[ultima_escrita.id].plano_sap = EMPTY

\* C18: role_permissions lets every role register and only CONFIABILIDADE (in any
\* letter case, blanks around it aside) edit; a session holds the permissions of
\* its role; atualizar_bda runs only in a session with pode_editar, which is a
\* CONFIABILIDADE one, and inserir_bda only in one with pode_registrar; so no row
\* carries the tag of a TECNICO session as its updater.
C18_PortaoDeCapacidade ==
    /\ \A role \in RolesQuaisquer :
           /\ role_permissions(role).pode_registrar
           /\ role_permissions(role).pode_editar
                  <=> role \in {"CONFIABILIDADE", " confiabilidade "}
    /\ sessao # None =>
           /\ sessao.pode_registrar
           /\ sessao.pode_editar <=> sessao.role = "CONFIABILIDADE"
    /\ ultima_escrita.op = "atualizar" =>
           /\ ultima_escrita.sessao.pode_editar
           /\ ultima_escrita.sessao.role = "CONFIABILIDADE"
    /\ ultima_escrita.op = "inserir" => ultima_escrita.sessao.pode_registrar
    /\ \A id \in DOMAIN db.tabela :
           db.tabela[id].atualizado_por
               \in {None, Str(<<"a", "@", "x", " ", "(", "C", ")">>)}

\* a TECNICO session is at the screen, over a row a TECNICO session inserted and a
\* CONFIABILIDADE session updated
C18_Witness ==
    /\ sessao # None
    /\ sessao.role = "TECNICO"
    /\ ultima_escrita.op = "atualizar"
    /\ db.tabela[ultima_escrita.id].atualizado_por = Str(<<"a", "@", "x", " ", "(", "C", ")">>)
    /\ db.tabela[ultima_escrita.id].created_at = IsoTs(1, 0)

\* the entries of the action list a stored row holds
AcoesDaLinha(r) == PyOf(r.acoes_lista.json).l

\* C19: the action list has at most 5 entries, after every validation (injection
\* included) and in every row the pages have written.
C19_NoMaximoCincoAcoes ==
    /\ Len(acoes_lista) <= 5
    /\ \A id \in DOMAIN db.tabela : Len(AcoesDaLinha(db.tabela[id])) <= 5

\* the entries of the cause list a stored row holds
CausasDaLinha(r) == PyOf(r.causas_linhas.json).l

\* C22: in the register and in the edit flow, the row written after a validation
\* without errors holds the cause list as validation stamped it (ultimo_por_que)
\* and the action list as validation left it, the injected action included.
C22_ListasValidadasPersistidas ==
    ultima_escrita.op # "nenhuma" =>
        /\ CausasDaLinha(db.tabela[ultima_escrita.id]) = ultima_escrita.causas_linhas
        /\ AcoesDaLinha(db.tabela[ultima_escrita.id]) = ultima_escrita.acoes_lista

\* an update whose validation stamped the first cause and injected the action
C22_Witness ==
    /\ ultima_escrita.op = "atualizar"
    /\ ultima_escrita.ui.existe_plano = NAO
    /\ \E i \in 1..Len(AcoesDaLinha(db.tabela[ultima_escrita.id])) :
           AcoesDaLinha(db.tabela[ultima_escrita.id])[i].descricao = Str(AUTO_DESC)
    /\ \A i \in 1..Len(ultima_escrita.ui.acoes) :
           ultima_escrita.ui.acoes[i].desc # Str(<<" ", "I", "M", "P">>)
    /\ CausasDaLinha(db.tabela[ultima_escrita.id])[1].ultimo_por_que = PyInt(4)

\* C23: inserir_bda and atualizar_bda run only after validar_payload returned no
\* error for the payload of the same interaction, and write that payload; when
\* validation returns an error no row is inserted or updated.
C23_ValidaAntesDeEscrever ==
    [][/\ db' # db =>
              /\ erros' = <<>>
              /\ sessao # None
              /\ \/ db' = inserir_bda(db, payload', UserTag(sessao), IsoTs(hoje, agora),
                                       uuids + 1)
                 \/ \E id \in DOMAIN db.tabela :
                        db' = atualizar_bda(db, id, payload', UserTag(sessao),
                                            db.tabela[id].caminho_imagem,
                                            IsoTs(hoje, agora), uuids + 1)
       /\ erros' # <<>> => (db' = db /\ escritas' = escritas)]_vars

\* a save refused by validation after a row was inserted, with writes to spare
C23_Witness ==
    /\ erros # <<>>
    /\ ultima_escrita.op = "inserir"
    /\ escritas = 1
    /\ DOMAIN db.tabela = {1}

\* the stored identities whose record a step changes
Alterados == {x \in DOMAIN db.tabela : db'.tabela[x] # db.tabela[x]}

\* C24: inserir_bda adds exactly one record, under an identity no stored record
\* has, and changes no stored record; atualizar_bda changes only the record of the
\* identity it is given, adds none, and changes nothing when no record has that
\* identity; no step removes a record, so the stored identities only grow.
C24_CicloDeVidaDosRegistros ==
    [][/\ DOMAIN db.tabela \subseteq DOMAIN db'.tabela
       /\ DOMAIN hist' # DOMAIN hist =>
              /\ DOMAIN db'.tabela = DOMAIN db.tabela \cup {db'.seq}
              /\ db'.seq \notin DOMAIN db.tabela
              /\ Alterados = {}
       /\ DOMAIN hist' = DOMAIN hist =>
              /\ DOMAIN db'.tabela = DOMAIN db.tabela
              /\ \A x \in Alterados : hist'[x] # hist[x] \/ hist[x].atualizacoes = 2
              /\ Cardinality(Alterados) <= 1
       /\ \A id \in (1..(MaxRegistros + 1)) \ DOMAIN db.tabela, pl \in PayloadsDB :
              atualizar_bda(db, id, pl, Str(<<"a">>), None, IsoTs(hoje, agora), uuids + 1)
                  = db]_vars

\* two records stored, the first updated since and the second as inserted
C24_Witness ==
    /\ DOMAIN db.tabela = {1, 2}
    /\ hist[1].atualizacoes = 1
    /\ hist[2].atualizacoes = 0
    /\ db.tabela[1].atualizado_por # None
    /\ db.tabela[2].atualizado_por = None

\* C25: with existe_plano = "Nao", validar_payload leaves the action list with an
\* action whose description and responsible are both filled, and does not return
\* the "Inclua pelo menos uma acao" error, whatever the list held before.
C25_NaoSempreTemAcao ==
    (chamadas >= 1 /\ Get(payload, "existe_plano") = NAO) =>
        /\ \E i \in 1..Len(acoes_lista) : AcaoConta(acoes_lista[i])
        /\ Conta(erros, ErrAcao) = 0

\* C26: validar_payload returns no error only for a payload whose existe_plano
\* is "Sim" or "Nao".
C26_AceitoSoComSimOuNao ==
    (chamadas >= 1 /\ erros = <<>>) => Get(payload, "existe_plano") \in {SIM, NAO}

\* a cause entry without its ultimo_por_que
SemUltimo(c) == [k \in DOMAIN c \ {"ultimo_por_que"} |-> c[k]]

\* C27: a call of validar_payload leaves the payload and the why rows as they
\* were; in the cause list it changes at most the ultimo_por_que of entries whose
\* row raised no cause error, and leaves an entry whose row raised it untouched;
\* in the action list it keeps every action in place, appends at most one, and
\* none when existe_plano is not "Nao".
C27_EscopoDaMutacao ==
    [][chamadas' # chamadas =>
          /\ payload' = payload
          /\ whys_grid' = whys_grid
          /\ Len(causas_linhas') = Len(causas_linhas)
          /\ \A i \in 1..Len(causas_linhas) :
                 /\ SemUltimo(causas_linhas'[i]) = SemUltimo(causas_linhas[i])
                 /\ Conta(erros', ErrCausa(i)) > 0 => causas_linhas'[i] = causas_linhas[i]
          /\ Len(acoes_lista') \in {Len(acoes_lista), Len(acoes_lista) + 1}
          /\ SubSeq(acoes_lista', 1, Len(acoes_lista)) = acoes_lista
          /\ Get(payload, "existe_plano") # NAO => acoes_lista' = acoes_lista]_vars

\* a call that stamped the first cause, left the second (its row raised the
\* cause error) as it was, and appended the action
C27_Witness ==
    /\ chamadas >= 1
    /\ whys_grid = GridMisto
    /\ Len(causas_linhas) = ROWS
    /\ Len(antes.causas_linhas) = ROWS
    /\ causas_linhas[1].ultimo_por_que = PyInt(4)
    /\ antes.causas_linhas[1].ultimo_por_que = PyInt(0)
    /\ Conta(erros, ErrCausa(2)) = 1
    /\ causas_linhas[2] = antes.causas_linhas[2]
    /\ Len(acoes_lista) = Len(antes.acoes_lista) + 1

====
